---- MODULE Spec2Model ----
(***************************************************************************)
(* Model of the InferiaLLM request path and deployment lifecycle.          *)
(*                                                                         *)
(* Three state machines share this module, under four specifications:      *)
(*   SpecLimiter   - UpstreamConcurrencyLimiter (concurrency_limiter.py)   *)
(*   SpecDeploy    - ModelDeploymentController and ModelDeploymentWorker   *)
(*   SpecHeartbeat - deploy_model, one request_delete call, the worker,    *)
(*                   the inventory heartbeat endpoint and the clock        *)
(*   SpecGateway   - OrchestrationService.handle_completion and the        *)
(*                   GatewayService helpers it calls                       *)
(***************************************************************************)
EXTENDS Integers, Sequences, FiniteSets, TLC

(***************************************************************************)
(* Bounds of the model.                                                    *)
(***************************************************************************)
NumRequests == 3
MaxCap == 2
NumDeleteCalls == 2
NumDeployHandlers == 1
NumTerminateHandlers == 2
MaxStarts == 1
MaxTokens == 2
MaxClock == 10
MaxRedeliveries == 1

\* A value standing for Python's None.
None == "None"

\* -- state of the concurrency limiter
VARIABLES
    upstream_global_max_in_flight,          \* settings value
    upstream_per_deployment_max_in_flight,  \* settings value
    global_semaphore,       \* value of _global_semaphore (unused when the cap is 0)
    deployment_semaphores,  \* deployment_key -> <<value>> of its semaphore, <<>> if absent
    lim                     \* request -> locals of its limit() call

limVars == <<upstream_global_max_in_flight, upstream_per_deployment_max_in_flight,
             global_semaphore, deployment_semaphores, lim>>

\* -- state of the deployment plane
VARIABLES
    row,            \* the deployment row (model_deployments)
    outbox,         \* event types enqueued in the outbox, in order
    published,      \* topic -> number of event_bus.publish calls
    pending,        \* topic -> published events not yet handed to a handler
    deprovisioned,  \* number of adapter.deprovision_node calls for the node
    node,           \* the inventory node (compute_inventory): presence, expose_url
    now,            \* wall clock, minutes
    pool_provider,  \* pool["provider"]
    pool,           \* what pool_repo.get(pool_id) finds: presence, is_active
    redelivered,    \* events the bus has delivered once more, per topic
    dm,             \* locals of the deploy_model call
    rd,             \* caller -> locals of its request_delete call
    sd,             \* locals of the start_deployment call
    dh,             \* handler task -> locals of handle_deploy_requested
    th,             \* handler task -> locals of handle_terminate_requested
    hb              \* locals of the heartbeat request

depVars == <<row, outbox, published, pending, deprovisioned, node, now,
             pool_provider, pool, redelivered, dm, rd, sd, dh, th, hb>>

\* -- state of one inference request
VARIABLES
    gw,             \* locals of the handle_completion call
    quota_task,     \* the task running filtration_client.check_quota
    scan_task,      \* the task running GatewayService.scan_input
    upstream,       \* the upstream calls made, in order
    usage,          \* the usage increments recorded (track_usage), in order
    log_task        \* the task running _log_request

gwVars == <<gw, quota_task, scan_task, upstream, usage, log_task>>

\* Internal-auth middleware: the configuration of the factory, the request in
\* hand, the request_id_ctx context variable and the response sent.
VARIABLES mw, request_id_ctx
\* One call of the URL builder.
VARIABLE bu
edgeVars == <<mw, request_id_ctx, bu>>

\* -- state of the provider configuration
VARIABLES
    setting,             \* the SystemSetting row "providers_config": presence, value
    settings_providers,  \* settings.providers: provider -> names of its credentials
    dc                   \* locals of the delete_provider_credential call

cfgVars == <<setting, settings_providers, dc>>

vars == <<limVars, depVars, gwVars, edgeVars, cfgVars>>

(***************************************************************************)
(* ---------------- UpstreamConcurrencyLimiter ----------------            *)
(***************************************************************************)
Requests == 1..NumRequests
DeploymentKeys == {"dA", "dB"}

\* __init__: the global semaphore exists only when the global cap is > 0.
HasGlobalSemaphore == upstream_global_max_in_flight > 0

LimIdle == [pc |-> "idle", key |-> None, acquired_global |-> FALSE,
            acquired_deployment |-> FALSE, deployment_semaphore |-> FALSE,
            result |-> None, retry_after |-> None, waited_on |-> None,
            released |-> <<>>]

InitLimiter ==
    /\ upstream_global_max_in_flight \in 0..MaxCap
    /\ upstream_per_deployment_max_in_flight \in 0..MaxCap
    /\ global_semaphore = upstream_global_max_in_flight
    /\ deployment_semaphores = [k \in DeploymentKeys |-> <<>>]
    /\ lim = [r \in Requests |-> LimIdle]

\* A release that gives a slot back twice.
SemReleaseMutant(v) == v + 2
\* asyncio.Semaphore.release(): the value goes up by one (the semaphore is
\* not a BoundedSemaphore, nothing caps it).
SemRelease(v) == v + 1

\* A finally-block that gives the per-deployment slot back as soon as the
\* call has the key's semaphore, whether or not it acquired a slot.
FinallyDeploymentMutant(l, sems) ==
    IF l.deployment_semaphore
    THEN [sems EXCEPT ![l.key] = <<SemRelease(sems[l.key][1])>>]
    ELSE sems
\* finally-block of limit(): the per-deployment slot is given back only when
\* this call acquired it.
FinallyDeployment(l, sems) ==
    IF l.acquired_deployment /\ l.deployment_semaphore
    THEN [sems EXCEPT ![l.key] = <<SemRelease(sems[l.key][1])>>]
    ELSE sems

\* A finally-block that gives the global slot back whether or not this call
\* acquired it.
FinallyGlobalMutant(l, g) ==
    IF HasGlobalSemaphore THEN SemRelease(g) ELSE g
\* finally-block of limit(): the global slot is given back only when this
\* call acquired it.
FinallyGlobal(l, g) ==
    IF l.acquired_global /\ HasGlobalSemaphore THEN SemRelease(g) ELSE g

\* A finally-block that gives the global slot back first.
finally_releases_mutant(l) ==
    (IF l.acquired_global /\ HasGlobalSemaphore THEN <<"global">> ELSE <<>>)
      \o (IF l.acquired_deployment /\ l.deployment_semaphore THEN <<"deployment">> ELSE <<>>)
\* finally-block of limit(): the releases it makes, in the order of its two
\* if statements.
finally_releases(l) ==
    (IF l.acquired_deployment /\ l.deployment_semaphore THEN <<"deployment">> ELSE <<>>)
      \o (IF l.acquired_global /\ HasGlobalSemaphore THEN <<"global">> ELSE <<>>)

\* limit() is entered for a deployment key.
LimitEnter(r, k) ==
    /\ lim[r].pc = "idle"
    /\ lim' = [lim EXCEPT ![r] = [LimIdle EXCEPT !.key = k,
                  !.pc = IF HasGlobalSemaphore THEN "acquire_global" ELSE "get_semaphore"]]
    /\ UNCHANGED <<depVars, gwVars, edgeVars, cfgVars, upstream_global_max_in_flight, upstream_per_deployment_max_in_flight,
                   global_semaphore, deployment_semaphores>>

\* _acquire_or_timeout(self._global_semaphore) succeeds.
AcquireGlobal(r) ==
    /\ lim[r].pc = "acquire_global"
    /\ global_semaphore > 0
    /\ global_semaphore' = global_semaphore - 1
    /\ lim' = [lim EXCEPT ![r].acquired_global = TRUE, ![r].pc = "get_semaphore"]
    /\ UNCHANGED <<depVars, gwVars, edgeVars, cfgVars, upstream_global_max_in_flight, upstream_per_deployment_max_in_flight,
                   deployment_semaphores>>

\* _acquire_or_timeout(self._global_semaphore) times out: HTTP 429, then the
\* finally-block runs with nothing acquired.
TimeoutGlobal(r) ==
    /\ lim[r].pc = "acquire_global"
    /\ global_semaphore' = FinallyGlobal(lim[r], global_semaphore)
    /\ deployment_semaphores' = FinallyDeployment(lim[r], deployment_semaphores)
    /\ lim' = [lim EXCEPT ![r] = [LimIdle EXCEPT !.result = "429", !.retry_after = "1",
                                                 !.waited_on = "global",
                                                 !.released = finally_releases(lim[r])]]
    /\ UNCHANGED <<depVars, gwVars, edgeVars, cfgVars, upstream_global_max_in_flight, upstream_per_deployment_max_in_flight>>

\* _get_or_create_deployment_semaphore: None when the per-deployment cap is
\* <= 0, else the key's semaphore, created on first use under the lock.
GetOrCreateDeploymentSemaphore(r) ==
    /\ lim[r].pc = "get_semaphore"
    /\ IF upstream_per_deployment_max_in_flight <= 0
       THEN /\ lim' = [lim EXCEPT ![r].pc = "inside"]
            /\ UNCHANGED deployment_semaphores
       ELSE /\ deployment_semaphores' =
                 IF deployment_semaphores[lim[r].key] = <<>>
                 THEN [deployment_semaphores EXCEPT
                          ![lim[r].key] = <<upstream_per_deployment_max_in_flight>>]
                 ELSE deployment_semaphores
            /\ lim' = [lim EXCEPT ![r].deployment_semaphore = TRUE,
                                  ![r].pc = "acquire_deployment"]
    /\ UNCHANGED <<depVars, gwVars, edgeVars, cfgVars, upstream_global_max_in_flight, upstream_per_deployment_max_in_flight,
                   global_semaphore>>

\* _acquire_or_timeout(deployment_semaphore) succeeds; the guarded block starts.
AcquireDeployment(r) ==
    /\ lim[r].pc = "acquire_deployment"
    /\ deployment_semaphores[lim[r].key][1] > 0
    /\ deployment_semaphores' = [deployment_semaphores EXCEPT
                                    ![lim[r].key] = <<@[1] - 1>>]
    /\ lim' = [lim EXCEPT ![r].acquired_deployment = TRUE, ![r].pc = "inside"]
    /\ UNCHANGED <<depVars, gwVars, edgeVars, cfgVars, upstream_global_max_in_flight, upstream_per_deployment_max_in_flight,
                   global_semaphore>>

\* _acquire_or_timeout(deployment_semaphore) times out: HTTP 429, the
\* finally-block gives back the global slot this call holds.
TimeoutDeployment(r) ==
    /\ lim[r].pc = "acquire_deployment"
    /\ global_semaphore' = FinallyGlobal(lim[r], global_semaphore)
    /\ deployment_semaphores' = FinallyDeployment(lim[r], deployment_semaphores)
    /\ lim' = [lim EXCEPT ![r] = [LimIdle EXCEPT !.result = "429", !.retry_after = "1",
                                                 !.waited_on = "deployment",
                                                 !.released = finally_releases(lim[r])]]
    /\ UNCHANGED <<depVars, gwVars, edgeVars, cfgVars, upstream_global_max_in_flight, upstream_per_deployment_max_in_flight>>

\* The guarded block ends, normally or by an exception raised inside it; the
\* finally-block releases per-deployment first, then global.
LimitExit(r, how) ==
    /\ lim[r].pc = "inside"
    /\ global_semaphore' = FinallyGlobal(lim[r], global_semaphore)
    /\ deployment_semaphores' = FinallyDeployment(lim[r], deployment_semaphores)
    /\ lim' = [lim EXCEPT ![r] = [LimIdle EXCEPT !.result = how,
                                                 !.released = finally_releases(lim[r])]]
    /\ UNCHANGED <<depVars, gwVars, edgeVars, cfgVars, upstream_global_max_in_flight, upstream_per_deployment_max_in_flight>>

\* The request's task is cancelled at one of the awaits of limit() (the two
\* acquisitions, the lock of the semaphore table) or inside the guarded
\* block: CancelledError is not caught, the finally-block runs.
LimitCancelled(r) ==
    /\ lim[r].pc \in {"acquire_global", "get_semaphore", "acquire_deployment", "inside"}
    /\ global_semaphore' = FinallyGlobal(lim[r], global_semaphore)
    /\ deployment_semaphores' = FinallyDeployment(lim[r], deployment_semaphores)
    /\ lim' = [lim EXCEPT ![r] = [LimIdle EXCEPT !.result = "cancelled",
                                                 !.released = finally_releases(lim[r])]]
    /\ UNCHANGED <<depVars, gwVars, edgeVars, cfgVars, upstream_global_max_in_flight, upstream_per_deployment_max_in_flight>>

NextLimiter ==
    \/ \E r \in Requests, k \in DeploymentKeys : LimitEnter(r, k)
    \/ \E r \in Requests : AcquireGlobal(r)
    \/ \E r \in Requests : TimeoutGlobal(r)
    \/ \E r \in Requests : GetOrCreateDeploymentSemaphore(r)
    \/ \E r \in Requests : AcquireDeployment(r)
    \/ \E r \in Requests : TimeoutDeployment(r)
    \/ \E r \in Requests : LimitExit(r, "ok")
    \/ \E r \in Requests : LimitExit(r, "exception")
    \/ \E r \in Requests : LimitCancelled(r)

\* Requests inside the guarded block.
InFlight == {r \in Requests : lim[r].pc = "inside"}
InFlightFor(k) == {r \in InFlight : lim[r].key = k}

\* Requests whose limit() call holds a global slot / a slot of key k.
HoldsGlobal == {r \in Requests : lim[r].acquired_global}
HoldsDeployment(k) == {r \in Requests : lim[r].key = k /\ lim[r].acquired_deployment}


(***************************************************************************)
(* ---------------- Deployment controller, worker, heartbeat ------------- *)
(*                                                                         *)
(* One deployment row, one compute pool and one inventory node are         *)
(* modelled.  Every awaited repository, event-bus or adapter call is one   *)
(* step; the code between two awaits belongs to the step of the await that *)
(* follows it.                                                             *)
(***************************************************************************)
MAX_PROVISION_RETRIES == 4
EPHEMERAL_FAILURE_THRESHOLD_MINUTES == 10

DeleteCallers == 1..NumDeleteCalls
DeployTasks == 1..NumDeployHandlers
\* Deploy handlers when deliveries of one event race: one more.
RaceTasks == 1..(NumDeployHandlers + 1)
TerminateTasks == 1..NumTerminateHandlers
\* The clock is read in steps of the failure window.
ClockStep == EPHEMERAL_FAILURE_THRESHOLD_MINUTES
\* Providers with an adapter in ADAPTER_REGISTRY that the model follows.
RegisteredProviders == {"akash", "nosana", "k8s"}
\* Those whose adapter takes every control-path call of the worker.
Providers == {"nosana", "k8s"}
WorkloadTypes == {"inference", "external"}
NodeId == "n1"
PoolId == "p1"

\* ProviderCapabilities.is_ephemeral: False by default, True in the DePIN
\* adapters' CAPABILITIES (Akash, Nosana).
is_ephemeral(provider) == provider \in {"akash", "nosana"}

\* Whether the provider's adapter takes the keyword arguments the worker
\* passes to the method.  AkashAdapter.wait_for_ready and
\* AkashAdapter.deprovision_node have no provider_credential_name parameter
\* (and no **kwargs), so the worker's call raises TypeError.
adapter_accepts(provider, method) ==
    ~(provider = "akash" /\ method \in {"wait_for_ready", "deprovision_node"})

\* workload_type is the workload_type key of the persisted configuration
\* (None when the configuration has none or cannot be parsed).
NoRow == [exists |-> FALSE, state |-> None, endpoint |-> None, node_ids |-> {},
          allocation_ids |-> {}, workload_type |-> None, created_at |-> 0,
          pool_id |-> None]
NoNode == [exists |-> FALSE, expose_url |-> None]
\* The compute pool a pool_id resolves to: an active pool, a deactivated
\* one, or none.
ActivePool == [exists |-> TRUE, is_active |-> TRUE]
Pools == {ActivePool, [exists |-> TRUE, is_active |-> FALSE],
          [exists |-> FALSE, is_active |-> FALSE]}

DmIdle == [pc |-> "idle", workload_type |-> None, endpoint |-> None,
           tx_row |-> FALSE, tx_outbox |-> FALSE]
\* seen: the state read by get(); concurrent: another request_delete call was
\* between its get() and its return when this one read the row.
RdIdle == [pc |-> "idle", seen |-> None, concurrent |-> FALSE]
\* writes: the states this call passed to update_state; payload: the
\* workload_type and pool_id of the event it published.
NoPayload == [workload_type |-> None, pool_id |-> None]
SdIdle == [pc |-> "idle", calls |-> 0, writes |-> <<>>, payload |-> NoPayload]
\* late: the delivery is a redelivery made after the handler of an earlier
\* delivery of the topic was left.  ready: what wait_for_ready returned.
\* provisions: the calls of adapter.provision_node this invocation has made.
DhIdle == [pc |-> "idle", attempt |-> 0, expose_url |-> None, late |-> FALSE,
           ready |-> None, provisions |-> 0, rejected |-> FALSE]
ThIdle == [pc |-> "idle", node_ids |-> {}, allocation_ids |-> {}, late |-> FALSE]
HbIdle == [pc |-> "idle", state |-> None, final_state |-> None]

InitDeploy ==
    /\ row = NoRow
    /\ outbox = <<>>
    /\ published = [deploy |-> 0, terminate |-> 0]
    /\ pending = [deploy |-> 0, terminate |-> 0]
    /\ deprovisioned = 0
    /\ node = NoNode
    /\ now = 0
    /\ pool_provider \in RegisteredProviders
    /\ pool = ActivePool
    /\ redelivered = [deploy |-> 0, terminate |-> 0]
    /\ dm = DmIdle
    /\ rd = [c \in DeleteCallers |-> RdIdle]
    /\ sd = SdIdle
    /\ dh = [t \in RaceTasks |-> DhIdle]
    /\ th = [t \in TerminateTasks |-> ThIdle]
    /\ hb = HbIdle

\* ---- repository and event-bus primitives ----

\* deployment_repo.update_state(id, state): unconditional write of the state.
update_state(r, s) == IF r.exists THEN [r EXCEPT !.state = s] ELSE r

\* A compare-and-set that does not compare.
update_state_if_ok_mutant(r, expected) == r.exists
\* deployment_repo.update_state_if(id, expected, new): compare-and-set.
update_state_if_ok(r, expected) == r.exists /\ r.state = expected

\* deployment_repo.update_endpoint(id, endpoint).
update_endpoint(r, e) == IF r.exists THEN [r EXCEPT !.endpoint = e] ELSE r

\* An attach_runtime that drops the node ids.
attach_runtime_mutant(r, allocs, nodes) ==
    IF r.exists THEN [r EXCEPT !.allocation_ids = allocs] ELSE r
\* deployment_repo.attach_runtime(id, allocation_ids, node_ids, runtime).
attach_runtime(r, allocs, nodes) ==
    IF r.exists THEN [r EXCEPT !.allocation_ids = allocs, !.node_ids = nodes] ELSE r

\* event_bus.publish(topic, payload).
publish(topic) ==
    /\ published' = [published EXCEPT ![topic] = @ + 1]
    /\ pending' = [pending EXCEPT ![topic] = @ + 1]

\* The wall clock advances.
Tick ==
    /\ row.exists
    /\ now + ClockStep <= MaxClock
    /\ now' = now + ClockStep
    /\ UNCHANGED <<row, outbox, published, pending, deprovisioned, node,
                   pool_provider, pool, redelivered, dm, rd, sd, dh, th, hb, limVars, gwVars, edgeVars, cfgVars>>

\* ---- ModelDeploymentController.deploy_model ----

\* A controller for which no workload is external.
is_external_mutant(workload_type) == FALSE
\* is_external = workload_type == "external"
is_external(workload_type) == workload_type = "external"

\* initial_state = "RUNNING" if is_external else "PENDING"
initial_state(workload_type) ==
    IF is_external(workload_type) THEN "RUNNING" ELSE "PENDING"

\* The pool check of deploy_model: ValueError when pool_repo.get finds no
\* pool or the pool's is_active is false.
pool_accepted(p) == p.exists /\ p.is_active

\* deploy_model is called: the pool check, then the transaction is opened.
\* An external deployment is registered with its provider's endpoint; a
\* compute deployment gets its endpoint from the worker.
DeployModelCall(w, e) ==
    /\ dm.pc = "idle" /\ ~row.exists
    /\ (w = "external") <=> (e # None)
    /\ dm' = IF pool_accepted(pool)
             THEN [dm EXCEPT !.pc = "create", !.workload_type = w, !.endpoint = e]
             ELSE [dm EXCEPT !.pc = "failed", !.workload_type = w]
    /\ UNCHANGED <<row, outbox, published, pending, deprovisioned, node, now,
                   pool_provider, pool, redelivered, rd, sd, dh, th, hb, limVars, gwVars, edgeVars, cfgVars>>

\* deployments.create(..., tx=tx): the row is written inside the transaction.
DeployModelCreate ==
    /\ dm.pc = "create"
    /\ dm' = [dm EXCEPT !.pc = "enqueue", !.tx_row = TRUE]
    /\ UNCHANGED <<row, outbox, published, pending, deprovisioned, node, now,
                   pool_provider, pool, redelivered, rd, sd, dh, th, hb, limVars, gwVars, edgeVars, cfgVars>>

\* outbox.enqueue("model.deployment.requested", tx=tx).
DeployModelEnqueue ==
    /\ dm.pc = "enqueue"
    /\ dm' = [dm EXCEPT !.pc = IF is_external(dm.workload_type) THEN "commit"
                               ELSE "publish",
                        !.tx_outbox = TRUE]
    /\ UNCHANGED <<row, outbox, published, pending, deprovisioned, node, now,
                   pool_provider, pool, redelivered, rd, sd, dh, th, hb, limVars, gwVars, edgeVars, cfgVars>>

\* event_bus.publish("model.deploy.requested") inside the transaction block;
\* the bus is not part of the transaction.
DeployModelPublish ==
    /\ dm.pc = "publish"
    /\ publish("deploy")
    /\ dm' = [dm EXCEPT !.pc = "commit"]
    /\ UNCHANGED <<row, outbox, deprovisioned, node, now,
                   pool_provider, pool, redelivered, rd, sd, dh, th, hb, limVars, gwVars, edgeVars, cfgVars>>

\* The transaction block exits normally: row and outbox event are committed.
DeployModelCommit ==
    /\ dm.pc = "commit"
    /\ row' = [exists |-> TRUE, state |-> initial_state(dm.workload_type),
               endpoint |-> dm.endpoint, node_ids |-> {}, allocation_ids |-> {},
               workload_type |-> dm.workload_type, created_at |-> now,
               pool_id |-> PoolId]
    /\ outbox' = Append(outbox, "model.deployment.requested")
    /\ dm' = [DmIdle EXCEPT !.pc = "returned", !.workload_type = dm.workload_type]
    /\ UNCHANGED <<published, pending, deprovisioned, node, now,
                   pool_provider, pool, redelivered, rd, sd, dh, th, hb, limVars, gwVars, edgeVars, cfgVars>>

\* create, enqueue, publish or the commit raises: the transaction rolls back
\* and deploy_model fails.
DeployModelFail ==
    /\ dm.pc \in {"create", "enqueue", "publish", "commit"}
    /\ dm' = [DmIdle EXCEPT !.pc = "failed", !.workload_type = dm.workload_type]
    /\ UNCHANGED <<row, outbox, published, pending, deprovisioned, node, now,
                   pool_provider, pool, redelivered, rd, sd, dh, th, hb, limVars, gwVars, edgeVars, cfgVars>>

\* ---- ModelDeploymentController.request_delete ----

\* The states for which request_delete returns without doing anything.
request_delete_skips(state) == state \in {"TERMINATED", "TERMINATING"}

\* d = deployments.get(id); return if the state is already terminal.
RequestDeleteGet(c) ==
    /\ rd[c].pc = "idle" /\ row.exists
    /\ \A b \in DeleteCallers : b < c => rd[b].pc # "idle"
    /\ rd' = [rd EXCEPT ![c].seen = row.state,
                        ![c].concurrent = \E b \in DeleteCallers \ {c} :
                                              rd[b].pc \in {"tx", "publish"},
                        ![c].pc = IF request_delete_skips(row.state)
                                  THEN "returned" ELSE "tx"]
    /\ UNCHANGED <<row, outbox, published, pending, deprovisioned, node, now,
                   pool_provider, pool, redelivered, dm, sd, dh, th, hb, limVars, gwVars, edgeVars, cfgVars>>

\* Transaction: update_state(TERMINATING) and the outbox event, committed
\* together.
RequestDeleteTx(c) ==
    /\ rd[c].pc = "tx"
    /\ row' = update_state(row, "TERMINATING")
    /\ outbox' = Append(outbox, "model.deployment.terminate")
    /\ rd' = [rd EXCEPT ![c].pc = "publish"]
    /\ UNCHANGED <<published, pending, deprovisioned, node, now,
                   pool_provider, pool, redelivered, dm, sd, dh, th, hb, limVars, gwVars, edgeVars, cfgVars>>

\* event_bus.publish("model.terminate.requested") after the transaction.
RequestDeletePublish(c) ==
    /\ rd[c].pc = "publish"
    /\ publish("terminate")
    /\ rd' = [rd EXCEPT ![c].pc = "returned"]
    /\ UNCHANGED <<row, outbox, deprovisioned, node, now,
                   pool_provider, pool, redelivered, dm, sd, dh, th, hb, limVars, gwVars, edgeVars, cfgVars>>

\* ---- ModelDeploymentController.start_deployment ----

\* A start_deployment that accepts every state.
start_allowed_mutant(state) == TRUE
\* The states from which start_deployment restarts a deployment.
start_allowed(state) == state \in {"STOPPED", "TERMINATED", "FAILED"}

\* A resolution without the default for rows that have no workload_type.
extract_workload_type_mutant(r) == r.workload_type
\* _extract_workload_type: the workload_type of the persisted configuration,
\* "inference" when there is none.
extract_workload_type(r) ==
    IF r.workload_type = None THEN "inference" ELSE r.workload_type

\* d = deployments.get(id); ValueError unless STOPPED, TERMINATED or FAILED.
StartDeploymentGet ==
    /\ sd.pc \in {"idle", "returned", "rejected"} /\ row.exists
    /\ sd.calls < MaxStarts
    /\ sd' = [SdIdle EXCEPT !.calls = sd.calls + 1,
                            !.pc = IF start_allowed(row.state)
                                   THEN "update" ELSE "rejected"]
    /\ UNCHANGED <<row, outbox, published, pending, deprovisioned, node, now,
                   pool_provider, pool, redelivered, dm, rd, dh, th, hb, limVars, gwVars, edgeVars, cfgVars>>

\* External: update_state(RUNNING) and return; else update_state(PENDING).
StartDeploymentUpdate ==
    /\ sd.pc = "update"
    /\ IF is_external(extract_workload_type(row))
       THEN /\ row' = update_state(row, "RUNNING")
            /\ sd' = [sd EXCEPT !.pc = "returned", !.writes = Append(@, "RUNNING")]
       ELSE /\ row' = update_state(row, "PENDING")
            /\ sd' = [sd EXCEPT !.pc = "publish", !.writes = Append(@, "PENDING")]
    /\ UNCHANGED <<outbox, published, pending, deprovisioned, node, now,
                   pool_provider, pool, redelivered, dm, rd, dh, th, hb, limVars, gwVars, edgeVars, cfgVars>>

\* event_bus.publish("model.deploy.requested") again, with the workload_type
\* resolved from the row read at the start and that row's pool_id.
StartDeploymentPublish ==
    /\ sd.pc = "publish"
    /\ publish("deploy")
    /\ sd' = [sd EXCEPT !.pc = "returned",
                        !.payload = [workload_type |-> extract_workload_type(row),
                                     pool_id |-> row.pool_id]]
    /\ UNCHANGED <<row, outbox, deprovisioned, node, now,
                   pool_provider, pool, redelivered, dm, rd, dh, th, hb, limVars, gwVars, edgeVars, cfgVars>>

\* ---- event delivery to the worker ----

\* A model.deploy.requested event is handed to handle_deploy_requested.
DeliverDeploy(t) ==
    /\ dh[t].pc = "idle" /\ pending.deploy > 0
    /\ \A u \in DeployTasks : u < t => dh[u].pc # "idle"
    /\ pending' = [pending EXCEPT !.deploy = @ - 1]
    /\ dh' = [dh EXCEPT ![t].pc = "get"]
    /\ UNCHANGED <<row, outbox, published, deprovisioned, node, now,
                   pool_provider, pool, redelivered, dm, rd, sd, th, hb, limVars, gwVars, edgeVars, cfgVars>>

\* A model.terminate.requested event is handed to handle_terminate_requested.
DeliverTerminate(t) ==
    /\ th[t].pc = "idle" /\ pending.terminate > 0
    /\ \A u \in TerminateTasks : u < t => th[u].pc # "idle"
    /\ pending' = [pending EXCEPT !.terminate = @ - 1]
    /\ th' = [th EXCEPT ![t].pc = "get"]
    /\ UNCHANGED <<row, outbox, published, deprovisioned, node, now,
                   pool_provider, pool, redelivered, dm, rd, sd, dh, hb, limVars, gwVars, edgeVars, cfgVars>>

\* Deliveries of a topic whose handler was left, by a return or by an
\* exception.
completed(topic) ==
    published[topic] - pending[topic] + redelivered[topic]
      - (IF topic = "deploy" THEN Cardinality({t \in RaceTasks : dh[t].pc # "idle"})
         ELSE Cardinality({t \in TerminateTasks : th[t].pc # "idle"}))

\* At-least-once delivery: the bus hands a model.deploy.requested event that
\* it has already delivered to handle_deploy_requested once more.
RedeliverDeploy(t) ==
    /\ dh[t].pc = "idle" /\ published.deploy - pending.deploy > 0
    /\ \A u \in RaceTasks : u < t => dh[u].pc # "idle"
    /\ redelivered.deploy + redelivered.terminate < MaxRedeliveries
    /\ redelivered' = [redelivered EXCEPT !.deploy = @ + 1]
    /\ dh' = [dh EXCEPT ![t] = [DhIdle EXCEPT !.pc = "get",
                                              !.late = completed("deploy") > 0]]
    /\ UNCHANGED <<row, outbox, published, pending, deprovisioned, node, now,
                   pool_provider, pool, dm, rd, sd, th, hb, limVars, gwVars, edgeVars, cfgVars>>

\* The same for a model.terminate.requested event.
RedeliverTerminate(t) ==
    /\ th[t].pc = "idle" /\ published.terminate - pending.terminate > 0
    /\ \A u \in TerminateTasks : u < t => th[u].pc # "idle"
    /\ redelivered.deploy + redelivered.terminate < MaxRedeliveries
    /\ redelivered' = [redelivered EXCEPT !.terminate = @ + 1]
    /\ th' = [th EXCEPT ![t] = [ThIdle EXCEPT !.pc = "get",
                                              !.late = completed("terminate") > 0]]
    /\ UNCHANGED <<row, outbox, published, pending, deprovisioned, node, now,
                   pool_provider, pool, dm, rd, sd, dh, hb, limVars, gwVars, edgeVars, cfgVars>>

\* ---- ModelDeploymentWorker.handle_deploy_requested ----

DhUnchanged == UNCHANGED <<outbox, published, pending, deprovisioned, now,
                           pool_provider, pool, redelivered, dm, rd, sd, th, hb, limVars, gwVars, edgeVars, cfgVars>>

\* d = deployments.get(id); skip unless PENDING.
DeployGet(t) ==
    /\ dh[t].pc = "get"
    /\ dh' = [dh EXCEPT ![t] = IF row.exists /\ row.state = "PENDING"
                               THEN [DhIdle EXCEPT !.pc = "cas", !.late = dh[t].late]
                               ELSE DhIdle]
    /\ UNCHANGED <<row, node>> /\ DhUnchanged

\* update_state_if(PENDING -> PROVISIONING); return if it did not apply.
DeployAcquire(t) ==
    /\ dh[t].pc = "cas"
    /\ IF update_state_if_ok(row, "PENDING")
       THEN /\ row' = update_state(row, "PROVISIONING")
            /\ dh' = [dh EXCEPT ![t].pc = "lookup"]
       ELSE /\ row' = row
            /\ dh' = [dh EXCEPT ![t] = DhIdle]
    /\ UNCHANGED node /\ DhUnchanged

\* models.get_model_by_id (a failure is caught and logged), pools.get and
\* inventory.get_resource_requirement.  The last two are awaited before the
\* try block: when one raises, the exception leaves the handler as it is.
DeployLookup(t, ok) ==
    /\ dh[t].pc = "lookup"
    /\ dh' = [dh EXCEPT ![t] = IF ok THEN [dh[t] EXCEPT !.pc = "fetch"] ELSE DhIdle]
    /\ UNCHANGED <<row, node>> /\ DhUnchanged

\* if attempt == MAX_PROVISION_RETRIES, in for attempt in
\* range(MAX_PROVISION_RETRIES + 1).
last_attempt(attempt) == attempt = MAX_PROVISION_RETRIES

\* Capacity loop: placement.fetch_candidate_nodes(...).  With candidates the
\* loop breaks; without, the last attempt and a missing job definition lead
\* to FAILED, any other attempt provisions.
DeployFetchCandidates(t, candidates, job_defined) ==
    /\ dh[t].pc = "fetch"
    /\ dh' = [dh EXCEPT ![t].pc =
                 IF candidates THEN "scheduling"
                 ELSE IF last_attempt(dh[t].attempt) THEN "set_failed"
                 ELSE IF ~job_defined THEN "set_failed"
                 ELSE "provision"]
    /\ UNCHANGED <<row, node>> /\ DhUnchanged

\* A handler that gives up without recording the failure.
DeploySetFailedMutant(t) ==
    /\ dh[t].pc = "set_failed"
    /\ dh' = [dh EXCEPT ![t] = DhIdle]
    /\ UNCHANGED <<row, node>> /\ DhUnchanged

\* deployments.update_state(id, "FAILED"); return.
DeploySetFailed(t) ==
    /\ dh[t].pc = "set_failed"
    /\ row' = update_state(row, "FAILED")
    /\ dh' = [dh EXCEPT ![t] = DhIdle]
    /\ UNCHANGED node /\ DhUnchanged

\* The URL the worker keeps after the readiness wait (lines 190-195): the
\* adapter's answer if it gave one (a URL or a "-ready" indicator), else the
\* node_spec's expose_url.
resolve_expose_url(expose_url, node_spec_url) ==
    IF expose_url # None THEN expose_url ELSE node_spec_url

\* adapter.provision_node(...) returns a node_spec (mode "simulation" or not,
\* with an expose_url or not) and, outside simulation mode,
\* adapter.wait_for_ready(...) returns a URL, a "-ready" indicator or
\* nothing.  Neither call touches a repository, so they form one step.  When
\* the adapter's wait_for_ready does not take the worker's arguments the call
\* raises TypeError, which reaches the outer handler.
DeployProvision(t, mode, spec_url, ready) ==
    /\ dh[t].pc = "provision"
    /\ dh' = IF mode # "simulation" /\ ~adapter_accepts(pool_provider, "wait_for_ready")
             THEN [dh EXCEPT ![t].pc = "except", ![t].provisions = @ + 1,
                             ![t].rejected = TRUE]
             ELSE [dh EXCEPT ![t].pc = IF mode = "simulation" THEN "sim_attach"
                                       ELSE "recheck",
                             ![t].expose_url = IF mode = "simulation" THEN None
                                               ELSE resolve_expose_url(ready, spec_url),
                             ![t].ready = IF mode = "simulation" THEN None ELSE ready,
                             ![t].provisions = @ + 1]
    /\ UNCHANGED <<row, node>> /\ DhUnchanged

\* Simulation mode: attach_runtime(allocation_ids=[], node_ids=[]).
DeploySimAttach(t) ==
    /\ dh[t].pc = "sim_attach"
    /\ row' = attach_runtime(row, {}, {})
    /\ dh' = [dh EXCEPT ![t].pc = "sim_running"]
    /\ UNCHANGED node /\ DhUnchanged

\* Simulation mode: update_state(RUNNING); return.
DeploySimRunning(t) ==
    /\ dh[t].pc = "sim_running"
    /\ row' = update_state(row, "RUNNING")
    /\ dh' = [dh EXCEPT ![t] = DhIdle]
    /\ UNCHANGED node /\ DhUnchanged

\* d_latest = deployments.get(id); abort unless still PROVISIONING.
DeployRecheck(t) ==
    /\ dh[t].pc = "recheck"
    /\ IF row.exists /\ row.state = "PROVISIONING"
       THEN dh' = [dh EXCEPT ![t].pc = IF dh[t].expose_url # None
                                         THEN "update_endpoint" ELSE "register"]
       ELSE dh' = [dh EXCEPT ![t] = DhIdle]
    /\ UNCHANGED <<row, node>> /\ DhUnchanged

\* deployments.update_endpoint(id, expose_url).
DeployUpdateEndpoint(t) ==
    /\ dh[t].pc = "update_endpoint"
    /\ row' = update_endpoint(row, dh[t].expose_url)
    /\ dh' = [dh EXCEPT ![t].pc = "register"]
    /\ UNCHANGED node /\ DhUnchanged

\* inventory.register_node(..., state="ready", expose_url=expose_url).
DeployRegisterNode(t) ==
    /\ dh[t].pc = "register"
    /\ node' = [exists |-> TRUE, expose_url |-> dh[t].expose_url]
    /\ dh' = [dh EXCEPT ![t].pc = "running"]
    /\ UNCHANGED row /\ DhUnchanged

\* deployments.update_state(id, "RUNNING"); an ephemeral provider goes on to
\* attach the node, any other provider re-enters the capacity loop.
DeployRunning(t) ==
    /\ dh[t].pc = "running"
    /\ row' = update_state(row, "RUNNING")
    /\ dh' = IF is_ephemeral(pool_provider)
             THEN [dh EXCEPT ![t].pc = "attach"]
             ELSE [dh EXCEPT ![t].pc = "fetch", ![t].attempt = @ + 1,
                             ![t].expose_url = None, ![t].ready = None]
    /\ UNCHANGED node /\ DhUnchanged

\* Ephemeral: attach_runtime(allocation_ids=[], node_ids=[node_id]); return.
DeployAttachNode(t) ==
    /\ dh[t].pc = "attach"
    /\ row' = attach_runtime(row, {}, {NodeId})
    /\ dh' = [dh EXCEPT ![t] = DhIdle]
    /\ UNCHANGED node /\ DhUnchanged

\* Placement: update_state(SCHEDULING).
DeployScheduling(t) ==
    /\ dh[t].pc = "scheduling"
    /\ row' = update_state(row, "SCHEDULING")
    /\ dh' = [dh EXCEPT ![t].pc = "deploying"]
    /\ UNCHANGED node /\ DhUnchanged

\* Placement: update_state(DEPLOYING).
DeployDeploying(t) ==
    /\ dh[t].pc = "deploying"
    /\ row' = update_state(row, "DEPLOYING")
    /\ dh' = [dh EXCEPT ![t].pc = "strategy"]
    /\ UNCHANGED node /\ DhUnchanged

\* strategy.deploy(...) returns, or it (or a missing strategy) raises: the
\* inner handler sets FAILED and re-raises to the outer handler.
DeployStrategy(t, ok) ==
    /\ dh[t].pc = "strategy"
    /\ IF ok
       THEN /\ row' = row
            /\ dh' = [dh EXCEPT ![t].pc = "attach_runtime"]
       ELSE /\ row' = update_state(row, "FAILED")
            /\ dh' = [dh EXCEPT ![t].pc = "except"]
    /\ UNCHANGED node /\ DhUnchanged

\* attach_runtime(allocation_ids, node_ids) with the strategy's result.
DeployAttachRuntime(t) ==
    /\ dh[t].pc = "attach_runtime"
    /\ row' = attach_runtime(row, {"a1"}, {NodeId})
    /\ dh' = [dh EXCEPT ![t].pc = "final_running"]
    /\ UNCHANGED node /\ DhUnchanged

\* update_state(RUNNING) at the end of placement.
DeployFinalRunning(t) ==
    /\ dh[t].pc = "final_running"
    /\ row' = update_state(row, "RUNNING")
    /\ dh' = [dh EXCEPT ![t] = DhIdle]
    /\ UNCHANGED node /\ DhUnchanged

\* Awaits inside the try block whose exception reaches the outer handler:
\* the placement query, provision_node / wait_for_ready, update_endpoint,
\* register_node and the attach_runtime calls.
RaisingSteps == {"fetch", "provision", "update_endpoint", "register", "attach",
                 "sim_attach", "attach_runtime"}

\* One of these awaits raises.
DeployRaise(t) ==
    /\ dh[t].pc \in RaisingSteps
    /\ dh' = [dh EXCEPT ![t].pc = "except"]
    /\ UNCHANGED <<row, node>> /\ DhUnchanged

\* except Exception: update_state(FAILED); raise.
DeployExcept(t) ==
    /\ dh[t].pc = "except"
    /\ row' = update_state(row, "FAILED")
    /\ dh' = [dh EXCEPT ![t] = DhIdle]
    /\ UNCHANGED node /\ DhUnchanged

\* handle_deploy_requested takes its next step, every repository and adapter
\* call returning (and a strategy being registered for the runtime).
DeployReturns(t) ==
    \/ DeployGet(t)
    \/ DeployAcquire(t)
    \/ DeployLookup(t, TRUE)
    \/ \E c \in BOOLEAN, j \in BOOLEAN : DeployFetchCandidates(t, c, j)
    \/ DeploySetFailed(t)
    \/ \E m \in {"simulation", "real"}, u \in {None, "http://e"},
          r \in {None, "http://e", "akash-ready"} : DeployProvision(t, m, u, r)
    \/ DeploySimAttach(t)
    \/ DeploySimRunning(t)
    \/ DeployRecheck(t)
    \/ DeployUpdateEndpoint(t)
    \/ DeployRegisterNode(t)
    \/ DeployRunning(t)
    \/ DeployAttachNode(t)
    \/ DeployScheduling(t)
    \/ DeployDeploying(t)
    \/ DeployStrategy(t, TRUE)
    \/ DeployAttachRuntime(t)
    \/ DeployFinalRunning(t)

\* ---- ModelDeploymentWorker.handle_terminate_requested ----

ThUnchanged == UNCHANGED <<outbox, published, pending, now, pool_provider, pool, redelivered,
                           dm, rd, sd, dh, hb, limVars, gwVars, edgeVars, cfgVars>>

\* d = deployments.get(id); return unless TERMINATING.  The rest of the
\* handler works on this snapshot of node_ids and allocation_ids.
TerminateGet(t) ==
    /\ th[t].pc = "get"
    /\ th' = [th EXCEPT ![t] =
                 IF row.exists /\ row.state = "TERMINATING"
                 THEN [pc |-> IF row.node_ids # {} THEN "deprovision"
                              ELSE IF row.allocation_ids # {} THEN "release"
                              ELSE "stopped",
                       node_ids |-> row.node_ids,
                       allocation_ids |-> row.allocation_ids,
                       late |-> th[t].late]
                 ELSE ThIdle]
    /\ UNCHANGED <<row, node, deprovisioned>> /\ ThUnchanged

\* 1. For each node of the snapshot: inventory.get_node_by_id, then
\* adapter.deprovision_node when the node is found.  When the adapter's
\* deprovision_node does not take the worker's arguments the call raises
\* TypeError and the handler is left.
TerminateDeprovision(t) ==
    /\ th[t].pc = "deprovision"
    /\ IF node.exists /\ ~adapter_accepts(pool_provider, "deprovision_node")
       THEN /\ UNCHANGED deprovisioned
            /\ th' = [th EXCEPT ![t] = ThIdle]
       ELSE /\ deprovisioned' = IF node.exists THEN deprovisioned + 1
                                ELSE deprovisioned
            /\ th' = [th EXCEPT ![t].pc = IF th[t].allocation_ids # {} THEN "release"
                                          ELSE "inventory"]
    /\ UNCHANGED <<row, node>> /\ ThUnchanged

\* 2. scheduler.release for each allocation of the snapshot.
TerminateRelease(t) ==
    /\ th[t].pc = "release"
    /\ th' = [th EXCEPT ![t].pc = IF th[t].node_ids # {} THEN "inventory"
                                  ELSE "stopped"]
    /\ UNCHANGED <<row, node, deprovisioned>> /\ ThUnchanged

\* 3. Inventory: mark_terminated for an ephemeral node, recycle_node else.
\* Both change the node's inventory state only, which nothing modelled here
\* reads; the node row and its expose_url stay.
TerminateInventory(t) ==
    /\ th[t].pc = "inventory"
    /\ node' = node
    /\ th' = [th EXCEPT ![t].pc = "stopped"]
    /\ UNCHANGED <<row, deprovisioned>> /\ ThUnchanged

\* 4. deployments.update_state(id, "STOPPED").
TerminateStopped(t) ==
    /\ th[t].pc = "stopped"
    /\ row' = update_state(row, "STOPPED")
    /\ th' = [th EXCEPT ![t] = ThIdle]
    /\ UNCHANGED <<node, deprovisioned>> /\ ThUnchanged

\* get_node_by_id / deprovision_node, scheduler.release or an inventory call
\* raises: nothing in the handler catches it, the handler is left.
TerminateRaise(t) ==
    /\ th[t].pc \in {"deprovision", "release", "inventory"}
    /\ th' = [th EXCEPT ![t] = ThIdle]
    /\ UNCHANGED <<row, node, deprovisioned>> /\ ThUnchanged

\* handle_terminate_requested takes its next step, whatever its outcome.
TerminateStep(t) ==
    \/ TerminateGet(t)
    \/ TerminateDeprovision(t)
    \/ TerminateRelease(t)
    \/ TerminateInventory(t)
    \/ TerminateStopped(t)
    \/ TerminateRaise(t)

\* ---- POST /inventory/heartbeat ----

HbUnchanged == UNCHANGED <<outbox, published, pending, deprovisioned, now,
                           pool_provider, pool, redelivered, dm, rd, sd, dh, th, limVars, gwVars, edgeVars, cfgVars>>

HeartbeatStates == {"ready", "terminated", "unhealthy"}

\* payload.state.lower() in ["terminated", "unhealthy", "failed"]
heartbeat_is_terminal(state) == state \in {"terminated", "unhealthy", "failed"}

\* inventory_repo.get_deployments_for_node(node_id): the deployment is linked
\* to the node through its node_ids.
deployments_for_node == row.exists /\ NodeId \in row.node_ids

\* A heartbeat that ignores the quick-failure window.
heartbeat_final_state_mutant(state, provider, created_at, at) ==
    IF state = "terminated" THEN "STOPPED" ELSE "FAILED"
\* Lines 74-118: the state a non-terminal deployment is moved to.
heartbeat_final_state(state, provider, created_at, at) ==
    LET target_state == IF state = "terminated" THEN "TERMINATED" ELSE "FAILED"
        quick == /\ is_ephemeral(provider) /\ target_state = "TERMINATED"
                 /\ at - created_at < EPHEMERAL_FAILURE_THRESHOLD_MINUTES
        final_state == IF quick THEN "FAILED" ELSE target_state
    IN IF final_state = "TERMINATED" THEN "STOPPED" ELSE final_state

\* inventory_repo.heartbeat(payload): upsert of the node keyed by
\* (provider, provider_instance_id); 404 when the node is unknown.
HeartbeatUpsert(state, url) ==
    /\ hb.pc = "idle" /\ node.exists
    /\ node' = [node EXCEPT !.expose_url = IF url # None THEN url ELSE @]
    /\ hb' = [HbIdle EXCEPT !.state = state,
                 !.pc = IF node'.expose_url # None THEN "sync_url"
                        ELSE IF heartbeat_is_terminal(state) THEN "read"
                        ELSE "idle"]
    /\ UNCHANGED row /\ HbUnchanged

\* node has an expose_url: update_endpoint on every linked deployment.
HeartbeatSyncEndpoint ==
    /\ hb.pc = "sync_url"
    /\ row' = IF deployments_for_node THEN update_endpoint(row, node.expose_url)
              ELSE row
    /\ hb' = IF heartbeat_is_terminal(hb.state) THEN [hb EXCEPT !.pc = "read"]
             ELSE HbIdle
    /\ UNCHANGED node /\ HbUnchanged

\* current_d = deployment_repo.get(d_id) for the linked deployment; nothing
\* is done when it is already TERMINATED, FAILED or STOPPED.
HeartbeatRead ==
    /\ hb.pc = "read"
    /\ hb' = IF deployments_for_node
                /\ row.state \notin {"TERMINATED", "FAILED", "STOPPED"}
             THEN [hb EXCEPT !.pc = "write",
                      !.final_state = heartbeat_final_state(
                           hb.state, pool_provider, row.created_at, now)]
             ELSE HbIdle
    /\ UNCHANGED <<row, node>> /\ HbUnchanged

\* deployment_repo.update_state(d_id, final_state).
HeartbeatWrite ==
    /\ hb.pc = "write"
    /\ row' = update_state(row, hb.final_state)
    /\ hb' = HbIdle
    /\ UNCHANGED node /\ HbUnchanged

Endpoints == {None, "http://e"}

\* Controller and worker: deploy_model, request_delete, start_deployment and
\* the two event handlers.
NextDeploy ==
    \/ \E w \in WorkloadTypes, e \in Endpoints : DeployModelCall(w, e)
    \/ DeployModelCreate
    \/ DeployModelEnqueue
    \/ DeployModelPublish
    \/ DeployModelCommit
    \/ DeployModelFail
    \/ \E c \in DeleteCallers : RequestDeleteGet(c)
    \/ \E c \in DeleteCallers : RequestDeleteTx(c)
    \/ \E c \in DeleteCallers : RequestDeletePublish(c)
    \/ StartDeploymentGet
    \/ StartDeploymentUpdate
    \/ StartDeploymentPublish
    \/ \E t \in DeployTasks : DeliverDeploy(t)
    \/ \E t \in TerminateTasks : DeliverTerminate(t)
    \/ \E t \in DeployTasks : DeployGet(t)
    \/ \E t \in DeployTasks : DeployAcquire(t)
    \/ \E t \in DeployTasks, ok \in BOOLEAN : DeployLookup(t, ok)
    \/ \E t \in DeployTasks, c \in BOOLEAN, j \in BOOLEAN : DeployFetchCandidates(t, c, j)
    \/ \E t \in DeployTasks : DeploySetFailed(t)
    \/ \E t \in DeployTasks, m \in {"simulation", "real"}, u \in Endpoints,
          r \in Endpoints \cup {"akash-ready"} : DeployProvision(t, m, u, r)
    \/ \E t \in DeployTasks : DeploySimAttach(t)
    \/ \E t \in DeployTasks : DeploySimRunning(t)
    \/ \E t \in DeployTasks : DeployRecheck(t)
    \/ \E t \in DeployTasks : DeployUpdateEndpoint(t)
    \/ \E t \in DeployTasks : DeployRegisterNode(t)
    \/ \E t \in DeployTasks : DeployRunning(t)
    \/ \E t \in DeployTasks : DeployAttachNode(t)
    \/ \E t \in DeployTasks : DeployScheduling(t)
    \/ \E t \in DeployTasks : DeployDeploying(t)
    \/ \E t \in DeployTasks, ok \in BOOLEAN : DeployStrategy(t, ok)
    \/ \E t \in DeployTasks : DeployAttachRuntime(t)
    \/ \E t \in DeployTasks : DeployFinalRunning(t)
    \/ \E t \in DeployTasks : DeployRaise(t)
    \/ \E t \in DeployTasks : DeployExcept(t)
    \/ \E t \in TerminateTasks : TerminateGet(t)
    \/ \E t \in TerminateTasks : TerminateDeprovision(t)
    \/ \E t \in TerminateTasks : TerminateRelease(t)
    \/ \E t \in TerminateTasks : TerminateInventory(t)
    \/ \E t \in TerminateTasks : TerminateStopped(t)

\* deploy_model and the deploy handler alone, with the bus delivering the
\* event at least once to handlers that may run side by side.
NextProvision ==
    \/ \E w \in WorkloadTypes, e \in Endpoints : DeployModelCall(w, e)
    \/ DeployModelCreate
    \/ DeployModelEnqueue
    \/ DeployModelPublish
    \/ DeployModelCommit
    \/ DeployModelFail
    \/ \E t \in RaceTasks : DeliverDeploy(t)
    \/ \E t \in RaceTasks : RedeliverDeploy(t)
    \/ \E t \in RaceTasks : DeployGet(t)
    \/ \E t \in RaceTasks : DeployAcquire(t)
    \/ \E t \in RaceTasks, ok \in BOOLEAN : DeployLookup(t, ok)
    \/ \E t \in RaceTasks, c \in BOOLEAN, j \in BOOLEAN : DeployFetchCandidates(t, c, j)
    \/ \E t \in RaceTasks : DeploySetFailed(t)
    \/ \E t \in RaceTasks, m \in {"simulation", "real"}, u \in Endpoints,
          r \in Endpoints \cup {"akash-ready"} : DeployProvision(t, m, u, r)
    \/ \E t \in RaceTasks : DeploySimAttach(t)
    \/ \E t \in RaceTasks : DeploySimRunning(t)
    \/ \E t \in RaceTasks : DeployRecheck(t)
    \/ \E t \in RaceTasks : DeployUpdateEndpoint(t)
    \/ \E t \in RaceTasks : DeployRegisterNode(t)
    \/ \E t \in RaceTasks : DeployRunning(t)
    \/ \E t \in RaceTasks : DeployAttachNode(t)
    \/ \E t \in RaceTasks : DeployScheduling(t)
    \/ \E t \in RaceTasks : DeployDeploying(t)
    \/ \E t \in RaceTasks, ok \in BOOLEAN : DeployStrategy(t, ok)
    \/ \E t \in RaceTasks : DeployAttachRuntime(t)
    \/ \E t \in RaceTasks : DeployFinalRunning(t)
    \/ \E t \in RaceTasks : DeployRaise(t)
    \/ \E t \in RaceTasks : DeployExcept(t)

\* deploy_model and the deploy handler with every call returning.
NextProvisionReturns ==
    \/ \E w \in WorkloadTypes, e \in Endpoints : DeployModelCall(w, e)
    \/ DeployModelCreate
    \/ DeployModelEnqueue
    \/ DeployModelPublish
    \/ DeployModelCommit
    \/ \E t \in RaceTasks : DeliverDeploy(t)
    \/ \E t \in RaceTasks : RedeliverDeploy(t)
    \/ \E t \in RaceTasks : DeployReturns(t)

\* Controller (deploy_model and one request_delete call), worker and the
\* inventory heartbeat endpoint, with the clock.
NextHeartbeat ==
    \/ \E w \in WorkloadTypes, e \in Endpoints : DeployModelCall(w, e)
    \/ DeployModelCreate
    \/ DeployModelEnqueue
    \/ DeployModelPublish
    \/ DeployModelCommit
    \/ DeployModelFail
    \/ RequestDeleteGet(1)
    \/ RequestDeleteTx(1)
    \/ RequestDeletePublish(1)
    \/ \E t \in DeployTasks : DeliverDeploy(t)
    \/ \E t \in TerminateTasks : DeliverTerminate(t)
    \/ \E t \in DeployTasks : DeployGet(t)
    \/ \E t \in DeployTasks : DeployAcquire(t)
    \/ \E t \in DeployTasks, ok \in BOOLEAN : DeployLookup(t, ok)
    \/ \E t \in DeployTasks, c \in BOOLEAN, j \in BOOLEAN : DeployFetchCandidates(t, c, j)
    \/ \E t \in DeployTasks : DeploySetFailed(t)
    \/ \E t \in DeployTasks, m \in {"simulation", "real"}, u \in Endpoints,
          r \in Endpoints \cup {"akash-ready"} : DeployProvision(t, m, u, r)
    \/ \E t \in DeployTasks : DeploySimAttach(t)
    \/ \E t \in DeployTasks : DeploySimRunning(t)
    \/ \E t \in DeployTasks : DeployRecheck(t)
    \/ \E t \in DeployTasks : DeployUpdateEndpoint(t)
    \/ \E t \in DeployTasks : DeployRegisterNode(t)
    \/ \E t \in DeployTasks : DeployRunning(t)
    \/ \E t \in DeployTasks : DeployAttachNode(t)
    \/ \E t \in DeployTasks : DeployScheduling(t)
    \/ \E t \in DeployTasks : DeployDeploying(t)
    \/ \E t \in DeployTasks, ok \in BOOLEAN : DeployStrategy(t, ok)
    \/ \E t \in DeployTasks : DeployAttachRuntime(t)
    \/ \E t \in DeployTasks : DeployFinalRunning(t)
    \/ \E t \in DeployTasks : DeployRaise(t)
    \/ \E t \in DeployTasks : DeployExcept(t)
    \/ \E t \in TerminateTasks : TerminateGet(t)
    \/ \E t \in TerminateTasks : TerminateDeprovision(t)
    \/ \E t \in TerminateTasks : TerminateRelease(t)
    \/ \E t \in TerminateTasks : TerminateInventory(t)
    \/ \E t \in TerminateTasks : TerminateStopped(t)
    \/ Tick
    \/ \E s \in HeartbeatStates, u \in Endpoints : HeartbeatUpsert(s, u)
    \/ HeartbeatSyncEndpoint
    \/ HeartbeatRead
    \/ HeartbeatWrite


(***************************************************************************)
(* ---------------- OrchestrationService.handle_completion --------------- *)
(*                                                                         *)
(* One chat-completion request, from validation to accounting.  The quota  *)
(* check, the input scan and _log_request run as tasks of their own.       *)
(***************************************************************************)
GwIdle == [pc |-> "idle", status |-> 0, stream |-> FALSE, guardrail |-> FALSE,
           processing |-> FALSE, output_scanners |-> FALSE, last_is_user |-> FALSE,
           has_user |-> FALSE, credential |-> None, nosana |-> FALSE,
           nosana_key |-> None, provider_key |-> None,
           messages |-> "original", prompt_tokens |-> 0, completion_tokens |-> 0,
           prompt_result |-> None, success |-> FALSE, upstream_status |-> 0,
           resolution |-> None, disconnected |-> FALSE]
NoScan == [pc |-> "none", is_valid |-> None]
NoLog == [pc |-> "none", prompt_tokens |-> 0, completion_tokens |-> 0,
          total_tokens |-> 0]
Tokens == 0..MaxTokens

InitGateway ==
    /\ gw = GwIdle
    /\ quota_task = "none"
    /\ scan_task = NoScan
    /\ upstream = <<>>
    /\ usage = <<>>
    /\ log_task = NoLog

\* The request ends with an HTTP error status.
GwFail(status) == gw' = [gw EXCEPT !.pc = "responded", !.status = status]

\* handle_completion is called: body validation, 400 without model or
\* messages.  has_user says that the messages contain a role=user message
\* with content, last_is_user that the last message of the list is one.
HandleCompletion(valid_body, stream, guardrail, processing, output_scanners, last_is_user, has_user) ==
    /\ gw.pc = "idle"
    /\ last_is_user => has_user
    /\ gw' = [GwIdle EXCEPT !.pc = IF valid_body THEN "resolve" ELSE "responded",
                            !.status = IF valid_body THEN 0 ELSE 400,
                            !.stream = stream, !.guardrail = guardrail,
                            !.processing = processing,
                            !.output_scanners = output_scanners,
                            !.last_is_user = last_is_user,
                            !.has_user = has_user]
    /\ UNCHANGED <<quota_task, scan_task, upstream, usage, log_task, limVars, depVars, edgeVars, cfgVars>>

\* What the filtration gateway's context resolution answers: a valid
\* context, or valid = false with the cause in its error text.
ContextResolutions == {"valid", "invalid_key", "key_not_permitted", "unknown_model"}

\* GatewayService.resolve_context: any context that is not valid raises
\* HTTPException(401), the cause only goes into the detail text.
resolve_context_status(resolution) == IF resolution = "valid" THEN 0 ELSE 401

\* 1. GatewayService.resolve_context: 401 when the context is not valid;
\* 2. rate limit: 429 when rate_limiter.check_limit refuses.  On success the
\* quota and scan tasks are created.
ResolveAndRateLimit(resolution, allowed) ==
    /\ gw.pc = "resolve"
    /\ IF resolve_context_status(resolution) # 0
       THEN /\ gw' = [gw EXCEPT !.pc = "responded", !.resolution = resolution,
                                !.status = resolve_context_status(resolution)]
            /\ UNCHANGED <<quota_task, scan_task>>
       ELSE IF ~allowed
       THEN /\ gw' = [gw EXCEPT !.pc = "responded", !.resolution = resolution, !.status = 429]
            /\ UNCHANGED <<quota_task, scan_task>>
       ELSE /\ gw' = [gw EXCEPT !.pc = "await_quota", !.resolution = resolution]
            /\ quota_task' = "running"
            /\ scan_task' = [NoScan EXCEPT !.pc = "created"]
    /\ UNCHANGED <<upstream, usage, log_task, limVars, depVars, edgeVars, cfgVars>>

\* filtration_client.check_quota returns or raises.
QuotaCheck(ok) ==
    /\ quota_task = "running"
    /\ quota_task' = IF ok THEN "ok" ELSE "failed"
    /\ UNCHANGED <<gw, scan_task, upstream, usage, log_task, limVars, depVars, edgeVars, cfgVars>>

\* scan_input starts: it returns at once when neither guardrails nor PII are
\* enabled or the last message is not a user message with content, else it
\* awaits filtration_client.scan_content.
ScanInputStart ==
    /\ scan_task.pc = "created"
    /\ scan_task' = [scan_task EXCEPT !.pc = IF gw.guardrail /\ gw.last_is_user
                                             THEN "in_flight" ELSE "done"]
    /\ UNCHANGED <<gw, quota_task, upstream, usage, log_task, limVars, depVars, edgeVars, cfgVars>>

\* A scan_input that returns whatever the scan result.
scan_input_outcome_mutant(is_valid) == "done"
\* What scan_input does with the scan result: HTTP 400 when is_valid is
\* false, else it returns (after applying sanitized_text, if any).
scan_input_outcome(is_valid) == IF is_valid = "False" THEN "raised" ELSE "done"

\* scan_content returns {is_valid, sanitized_text}.
ScanInputResult(is_valid, sanitized) ==
    /\ scan_task.pc = "in_flight"
    /\ scan_task' = [pc |-> scan_input_outcome(is_valid), is_valid |-> is_valid]
    /\ gw' = IF scan_input_outcome(is_valid) = "done" /\ sanitized
             THEN [gw EXCEPT !.messages = "sanitized"] ELSE gw
    /\ UNCHANGED <<quota_task, upstream, usage, log_task, limVars, depVars, edgeVars, cfgVars>>

\* await quota_task: on failure scan_task.cancel() and the error is raised
\* (429).  cancel() leaves a finished task as it is and asks the event loop
\* to throw CancelledError into an unfinished one; the handler does not await
\* the task afterwards.  Both tasks were created before the handler first
\* yields, so the scan task has run to its first await when the handler
\* resumes.
AwaitQuota ==
    /\ gw.pc = "await_quota" /\ quota_task \in {"ok", "failed"}
    /\ scan_task.pc # "created"
    /\ IF quota_task = "ok"
       THEN /\ gw' = [gw EXCEPT !.pc = "await_scan"]
            /\ UNCHANGED scan_task
       ELSE /\ GwFail(429)
            /\ scan_task' = IF scan_task.pc \in {"done", "raised"} THEN scan_task
                            ELSE [scan_task EXCEPT !.pc = "cancelling"]
    /\ UNCHANGED <<quota_task, upstream, usage, log_task, limVars, depVars, edgeVars, cfgVars>>

\* The event loop runs the task whose cancellation was requested:
\* CancelledError is thrown at its await (scan_input catches nothing) and the
\* task ends cancelled, without having used any scan result.
ScanCancelled ==
    /\ scan_task.pc = "cancelling"
    /\ scan_task' = [scan_task EXCEPT !.pc = "cancelled"]
    /\ UNCHANGED <<gw, quota_task, upstream, usage, log_task, limVars, depVars, edgeVars, cfgVars>>

\* await scan_task: its HTTPException (400) ends the request.
AwaitScan ==
    /\ gw.pc = "await_scan" /\ scan_task.pc \in {"done", "raised"}
    /\ IF scan_task.pc = "raised" THEN GwFail(400)
       ELSE gw' = [gw EXCEPT !.pc = "prompt"]
    /\ UNCHANGED <<quota_task, scan_task, upstream, usage, log_task, limVars, depVars, edgeVars, cfgVars>>

\* What process_prompt hands back for each answer of
\* filtration_client.process_prompt: the processed messages when the answer
\* carries some, None when it carries none (the function falls off its end),
\* HTTP 500 when the call raised.
process_prompt_result(answer) ==
    CASE answer = "messages" -> "processed"
      [] answer = "empty" -> None
      [] answer = "raises" -> "500"

\* What the deployment's credentials_json / configuration can carry as
\* api_key, key or token, and what settings.nosana_internal_api_key can be.
DeploymentCredentials == {None, "deployment_key"}
NosanaInternalApiKeys == {None, "nosana_internal_key"}

\* The upstream API key: the deployment's credential, replaced by
\* settings.nosana_internal_api_key when the deployment is a Nosana one
\* (provider == "nosana" or "nos.ci" in the endpoint) and that key is set.
resolve_provider_key(credential, nosana, nosana_key) ==
    IF nosana /\ nosana_key # None THEN nosana_key ELSE credential

\* 5. GatewayService.process_prompt, then 6. the endpoint check (500 without
\* an endpoint) and the resolution of the upstream API key.  With RAG and
\* template both disabled the messages pass through unchanged.
ProcessPrompt(answer, has_endpoint, credential, nosana, nosana_key) ==
    /\ gw.pc = "prompt"
    /\ LET result == IF gw.processing THEN process_prompt_result(answer)
                     ELSE gw.messages
       IN IF result = "500" \/ ~has_endpoint
          THEN gw' = [gw EXCEPT !.pc = "responded", !.status = 500,
                                !.prompt_result = IF gw.processing THEN answer ELSE None]
          ELSE gw' = [gw EXCEPT !.pc = IF gw.stream THEN "streaming_response"
                                       ELSE "call_upstream",
                                !.messages = result,
                                !.prompt_result = IF gw.processing THEN answer ELSE None,
                                !.credential = credential, !.nosana = nosana,
                                !.nosana_key = nosana_key,
                                !.provider_key =
                                    resolve_provider_key(credential, nosana, nosana_key)]
    /\ UNCHANGED <<quota_task, scan_task, upstream, usage, log_task, limVars, depVars, edgeVars, cfgVars>>

\* A total that leaves the prompt tokens out.
total_tokens_mutant(prompt_tokens, completion_tokens) == completion_tokens
\* _log_request computes total_tokens = prompt_tokens + completion_tokens.
total_tokens(prompt_tokens, completion_tokens) == prompt_tokens + completion_tokens

\* _log_request is started with the token counts known at that moment.
start_log_request(prompt_tokens, completion_tokens) ==
    [pc |-> "log_inference", prompt_tokens |-> prompt_tokens,
     completion_tokens |-> completion_tokens,
     total_tokens |-> total_tokens(prompt_tokens, completion_tokens)]

\* What the upstream POST can come back with: no response at all (0, a
\* transport error) or a response with one of these status codes.
UpstreamStatuses == {0, 200, 404, 429, 500, 503}

\* resp.raise_for_status(): HTTPStatusError for a 4xx or 5xx response.
raises_for_status(upstream_status) == upstream_status >= 400

\* call_upstream's except-clauses: an HTTPStatusError is re-raised as an
\* HTTPException with the upstream's own status code, any other exception
\* as 502.
call_upstream_error_status(upstream_status) ==
    IF raises_for_status(upstream_status) THEN upstream_status ELSE 502

\* 7. _handle_standard: GatewayService.call_upstream posts the payload (the
\* provider adapter's transform_request passes the messages through); a
\* provider error ends the request with the provider's status or 502.
CallUpstream(upstream_status, p, c) ==
    /\ gw.pc = "call_upstream"
    /\ upstream' = Append(upstream, [messages |-> gw.messages, stream |-> FALSE,
                                     api_key |-> gw.provider_key])
    /\ gw' = IF upstream_status # 0 /\ ~raises_for_status(upstream_status)
             THEN [gw EXCEPT !.pc = "output_scan", !.prompt_tokens = p,
                             !.completion_tokens = c, !.upstream_status = upstream_status]
             ELSE [gw EXCEPT !.pc = "responded", !.upstream_status = upstream_status,
                             !.status = call_upstream_error_status(upstream_status)]
    /\ UNCHANGED <<quota_task, scan_task, usage, log_task, limVars, depVars, edgeVars, cfgVars>>

\* 8. Output scan (reads provider_payload["messages"][-1], which raises when
\* messages is None), 400 on a violation; else background_tasks.add_task
\* (_log_request) and the response is returned.
OutputScanAndReturn(is_valid) ==
    /\ gw.pc = "output_scan"
    /\ IF gw.messages = None
       THEN GwFail(500) /\ UNCHANGED log_task
       ELSE IF gw.guardrail /\ gw.output_scanners /\ ~is_valid
       THEN GwFail(400) /\ UNCHANGED log_task
       ELSE /\ gw' = [gw EXCEPT !.pc = "responded", !.status = 200, !.success = TRUE]
            /\ log_task' = start_log_request(gw.prompt_tokens, gw.completion_tokens)
    /\ UNCHANGED <<quota_task, scan_task, upstream, usage, limVars, depVars, edgeVars, cfgVars>>

\* 7. _handle_streaming returns the StreamingResponse (200); nothing has been
\* sent upstream yet.
StreamingResponse ==
    /\ gw.pc = "streaming_response"
    /\ gw' = [gw EXCEPT !.pc = "stream_open", !.status = 200]
    /\ UNCHANGED <<quota_task, scan_task, upstream, usage, log_task, limVars, depVars, edgeVars, cfgVars>>

\* The response body is iterated: stream_upstream opens the POST.  An
\* upstream error becomes an error frame and the stream ends.
StreamOpen(ok) ==
    /\ gw.pc = "stream_open"
    /\ upstream' = Append(upstream, [messages |-> gw.messages, stream |-> TRUE,
                                     api_key |-> gw.provider_key])
    /\ gw' = [gw EXCEPT !.pc = IF ok THEN "relay" ELSE "stream_end"]
    /\ UNCHANGED <<quota_task, scan_task, usage, log_task, limVars, depVars, edgeVars, cfgVars>>

\* A chunk is relayed; StreamProcessor updates the tracker from the usage the
\* upstream reports.
StreamChunk(p, c) ==
    /\ gw.pc = "relay"
    /\ gw.prompt_tokens <= p /\ gw.completion_tokens <= c
    /\ <<p, c>> # <<gw.prompt_tokens, gw.completion_tokens>>
    /\ gw' = [gw EXCEPT !.prompt_tokens = p, !.completion_tokens = c]
    /\ UNCHANGED <<quota_task, scan_task, upstream, usage, log_task, limVars, depVars, edgeVars, cfgVars>>

\* The upstream stream ends with [DONE], or the client disconnects.
StreamFinish(disconnect) ==
    /\ gw.pc = "relay"
    /\ gw' = [gw EXCEPT !.pc = "stream_end", !.success = ~disconnect,
                        !.disconnected = disconnect]
    /\ UNCHANGED <<quota_task, scan_task, upstream, usage, log_task, limVars, depVars, edgeVars, cfgVars>>

\* A wrapper that creates the log task after its loop, so only when the
\* loop ended normally.
logs_on_exit_mutant(disconnected) == ~disconnected
\* logging_generator_wrapper creates the log task in a finally-block: it runs
\* however the loop is left, by exhaustion, by cancellation or by close.
logs_on_exit(disconnected) == TRUE

\* finally-block of logging_generator_wrapper: asyncio.create_task
\* (_log_request(...)) with the tracker's counts.
StreamFinally ==
    /\ gw.pc = "stream_end"
    /\ log_task' = IF logs_on_exit(gw.disconnected)
                   THEN start_log_request(gw.prompt_tokens, gw.completion_tokens)
                   ELSE log_task
    /\ gw' = [gw EXCEPT !.pc = "responded"]
    /\ UNCHANGED <<quota_task, scan_task, upstream, usage, limVars, depVars, edgeVars, cfgVars>>

\* _log_request: filtration_client.log_inference(...).
LogInference ==
    /\ log_task.pc = "log_inference"
    /\ log_task' = [log_task EXCEPT !.pc = "track_usage"]
    /\ UNCHANGED <<gw, quota_task, scan_task, upstream, usage, limVars, depVars, edgeVars, cfgVars>>

\* _log_request: filtration_client.track_usage(user_id, model, usage).
TrackUsage ==
    /\ log_task.pc = "track_usage"
    /\ usage' = Append(usage, [prompt_tokens |-> log_task.prompt_tokens,
                               completion_tokens |-> log_task.completion_tokens,
                               total_tokens |-> log_task.total_tokens])
    /\ log_task' = [log_task EXCEPT !.pc = "done"]
    /\ UNCHANGED <<gw, quota_task, scan_task, upstream, limVars, depVars, edgeVars, cfgVars>>

NextGateway ==
    \/ \E v, st, g, pr, o, l, hu \in BOOLEAN : HandleCompletion(v, st, g, pr, o, l, hu)
    \/ \E res \in ContextResolutions, a \in BOOLEAN : ResolveAndRateLimit(res, a)
    \/ \E ok \in BOOLEAN : QuotaCheck(ok)
    \/ ScanInputStart
    \/ \E v \in {"True", "False"}, sn \in BOOLEAN : ScanInputResult(v, sn)
    \/ AwaitQuota
    \/ ScanCancelled
    \/ AwaitScan
    \/ \E a \in {"messages", "empty", "raises"}, e \in BOOLEAN,
          cr \in DeploymentCredentials, n \in BOOLEAN, nk \in NosanaInternalApiKeys :
            ProcessPrompt(a, e, cr, n, nk)
    \/ \E us \in UpstreamStatuses, p \in Tokens, c \in Tokens : CallUpstream(us, p, c)
    \/ \E v \in BOOLEAN : OutputScanAndReturn(v)
    \/ StreamingResponse
    \/ \E ok \in BOOLEAN : StreamOpen(ok)
    \/ \E p \in Tokens, c \in Tokens : StreamChunk(p, c)
    \/ \E d \in BOOLEAN : StreamFinish(d)
    \/ StreamFinally
    \/ LogInference
    \/ TrackUsage

(***************************************************************************)
(* ------------------- Internal-auth middleware -------------------------- *)
(*                                                                         *)
(* create_internal_auth_middleware(internal_api_key, check_path_prefix,    *)
(* skip_paths) and one request through the middleware it returns.  The     *)
(* code up to `await call_next(request)` is one step, call_next's return   *)
(* (or exception) the next.                                                *)
(***************************************************************************)
InternalApiKey == "good"
\* X-Request-ID of the request: absent, empty, or a value.
InboundRequestIds == {None, "", "rid"}
\* X-Internal-API-Key / X-Internal-Key of the request: absent, empty, the
\* configured key, another key.
ApiKeys == {None, "", InternalApiKey, "bad"}
Paths == {"/health", "/internal/x", "/public"}
Uuid4 == "uuid4"

MwIdle == [pc |-> "idle", inbound |-> None, path |-> None, api_key |-> None,
           request_id |-> None, status |-> 0, x_request_id |-> None,
           check_path_prefix |-> None, skip_paths |-> {}]

\* The factory's arguments.
InitMiddleware ==
    /\ mw \in {[MwIdle EXCEPT !.check_path_prefix = pre, !.skip_paths = sk] :
                  pre \in {None, "/internal"}, sk \in {{}, {"/health"}}}
    /\ request_id_ctx = None

MiddlewareAtRest == mw = MwIdle /\ request_id_ctx = None

\* path.startswith(check_path_prefix) on the paths of the model.
path_startswith(path, prefix) == prefix = "/internal" /\ path = "/internal/x"

\* request.headers.get("X-Request-ID") or str(uuid.uuid4())
request_id_for(inbound) == IF inbound \in {None, ""} THEN Uuid4 ELSE inbound

\* The request is passed on without key validation: the path is in
\* skip_paths, or a prefix is configured and the path is outside it.
passes_unchecked(m, path) ==
    \/ path \in m.skip_paths
    \/ m.check_path_prefix # None /\ ~path_startswith(path, m.check_path_prefix)

\* The middleware is entered: request id, context variable, then the
\* skip/prefix tests and the key validation.  The two rejections return a
\* JSONResponse built on the spot; the finally-block resets the context.
MiddlewareEnter(inbound, path, api_key) ==
    /\ mw.pc = "idle"
    /\ LET m == [mw EXCEPT !.inbound = inbound, !.path = path, !.api_key = api_key,
                           !.request_id = request_id_for(inbound)]
       IN IF passes_unchecked(mw, path)
          THEN mw' = [m EXCEPT !.pc = "call_next"] /\ request_id_ctx' = m.request_id
          ELSE IF api_key \in {None, ""}
          THEN mw' = [m EXCEPT !.pc = "responded", !.status = 401] /\ request_id_ctx' = None
          ELSE IF api_key # InternalApiKey
          THEN mw' = [m EXCEPT !.pc = "responded", !.status = 403] /\ request_id_ctx' = None
          ELSE mw' = [m EXCEPT !.pc = "call_next"] /\ request_id_ctx' = m.request_id
    /\ UNCHANGED <<bu, limVars, depVars, gwVars, cfgVars>>

\* call_next returns the application's response; the header is set on it.
CallNextReturns(status) ==
    /\ mw.pc = "call_next"
    /\ mw' = [mw EXCEPT !.pc = "responded", !.status = status,
                        !.x_request_id = mw.request_id]
    /\ request_id_ctx' = None
    /\ UNCHANGED <<bu, limVars, depVars, gwVars, cfgVars>>

\* call_next raises: the exception leaves the middleware, no response is
\* built here.
CallNextRaises ==
    /\ mw.pc = "call_next"
    /\ mw' = [mw EXCEPT !.pc = "raised"]
    /\ request_id_ctx' = None
    /\ UNCHANGED <<bu, limVars, depVars, gwVars, cfgVars>>

NextMiddleware ==
    \/ \E i \in InboundRequestIds, p \in Paths, k \in ApiKeys : MiddlewareEnter(i, p, k)
    \/ \E st \in {200, 404} : CallNextReturns(st)
    \/ CallNextRaises

(***************************************************************************)
(* ------------------------- URL builder --------------------------------- *)
(*                                                                         *)
(* Strings are sequences of characters; "h" stands for scheme and host.    *)
(***************************************************************************)
Base == <<"h">>
V1 == <<"/", "v", "1">>
ChatCompletions == <<"/", "c", "h", "a", "t", "/", "c", "o", "m", "p", "l", "e", "t", "i", "o", "n", "s">>
Messages == <<"/", "m", "e", "s", "s", "a", "g", "e", "s">>
Slash == <<"/">>

\* Endpoints a deployment is registered with, with up to two trailing
\* slashes.
EndpointStems == {Base, Base \o V1, Base \o V1 \o ChatCompletions, Base \o Messages}
EndpointUrls == EndpointStems \cup {e \o Slash : e \in EndpointStems}
                              \cup {e \o Slash \o Slash : e \in EndpointStems}

\* adapter.get_chat_path() of the request adapters.
ChatPaths == {V1 \o ChatCompletions, V1 \o Messages}

\* str.endswith / str.startswith
endswith(s, suffix) ==
    /\ Len(s) >= Len(suffix)
    /\ SubSeq(s, Len(s) - Len(suffix) + 1, Len(s)) = suffix
startswith(s, prefix) ==
    /\ Len(s) >= Len(prefix)
    /\ SubSeq(s, 1, Len(prefix)) = prefix

\* str.rstrip('/')
RECURSIVE rstrip(_)
rstrip(s) == IF s # <<>> /\ s[Len(s)] = "/" THEN rstrip(SubSeq(s, 1, Len(s) - 1)) ELSE s

\* A builder that only appends the chat path to the stripped endpoint.
build_from_stripped_mutant(endpoint, chat_path) == endpoint \o chat_path
\* _build_full_url after the rstrip: the endpoint as it is when it already
\* ends in a chat path; the chat path without its first three characters
\* when the endpoint ends in /v1 and the chat path starts with /v1; else
\* endpoint + chat_path.
build_from_stripped(endpoint, chat_path) ==
    IF endswith(endpoint, ChatCompletions) \/ endswith(endpoint, Messages)
    THEN endpoint
    ELSE IF endswith(endpoint, V1)
    THEN IF startswith(chat_path, V1)
         THEN endpoint \o SubSeq(chat_path, 4, Len(chat_path))
         ELSE endpoint \o chat_path
    ELSE endpoint \o chat_path

\* Number of places where sub occurs in s.
occurrences(s, sub) ==
    Cardinality({i \in 1..Len(s) : i + Len(sub) - 1 <= Len(s)
                                     /\ SubSeq(s, i, i + Len(sub) - 1) = sub})

\* The two functions that build the URL of their POST.
Callers == {"stream_upstream", "call_upstream"}

BuIdle == [pc |-> "idle", caller |-> None, endpoint_url |-> <<>>, chat_path |-> <<>>,
           endpoint |-> <<>>, full_url |-> <<>>]

InitUrlBuilder == bu = BuIdle

\* _build_full_url(endpoint_url, chat_path) is called with the deployment's
\* endpoint and adapter.get_chat_path().
BuildFullUrlCall(caller, endpoint_url, chat_path) ==
    /\ bu.pc = "idle"
    /\ bu' = [bu EXCEPT !.pc = "strip", !.caller = caller, !.endpoint_url = endpoint_url,
                        !.chat_path = chat_path]
    /\ UNCHANGED <<mw, request_id_ctx, limVars, depVars, gwVars, cfgVars>>

\* endpoint = endpoint_url.rstrip('/')
BuildFullUrlStrip ==
    /\ bu.pc = "strip"
    /\ bu' = [bu EXCEPT !.pc = "build", !.endpoint = rstrip(bu.endpoint_url)]
    /\ UNCHANGED <<mw, request_id_ctx, limVars, depVars, gwVars, cfgVars>>

\* The three return statements.
BuildFullUrlReturn ==
    /\ bu.pc = "build"
    /\ bu' = [bu EXCEPT !.pc = "returned",
                        !.full_url = build_from_stripped(bu.endpoint, bu.chat_path)]
    /\ UNCHANGED <<mw, request_id_ctx, limVars, depVars, gwVars, cfgVars>>

NextUrlBuilder ==
    \/ \E cl \in Callers, e \in EndpointUrls, cp \in ChatPaths : BuildFullUrlCall(cl, e, cp)
    \/ BuildFullUrlStrip
    \/ BuildFullUrlReturn

(***************************************************************************)
(* ---------------- Provider credentials: delete and save ---------------- *)
(*                                                                         *)
(* delete_provider_credential of the management API, ConfigManager's       *)
(* save_config and poll_once.  A provider's credential list (api_keys of   *)
(* nosana, wallets of akash) is followed by the names of its items.        *)
(***************************************************************************)
CredentialNames == {"c1", "c2"}
\* The providers delete_provider_credential knows a credential list for.
CredentialProviders == {"nosana", "akash"}
\* The providers a request can name.
RequestedProviders == CredentialProviders \cup {"k8s"}
ProviderConfigs == [CredentialProviders -> SUBSET CredentialNames]
NoCredentials == [p \in CredentialProviders |-> {}]
NoSetting == [exists |-> FALSE, value |-> NoCredentials]
DcIdle == [pc |-> "idle", provider |-> None, credential_name |-> None,
           config |-> NoCredentials, final_config |-> NoCredentials, status |-> 0]

\* No stored row and no call; the settings are the defaults.
ConfigAtRest ==
    /\ setting = NoSetting
    /\ settings_providers = NoCredentials
    /\ dc = DcIdle

\* Either no row is stored and the settings come from the environment, or a
\* row is stored and the settings have been refreshed from it (initialize,
\* poll_once).
InitConfig ==
    /\ setting \in [exists : BOOLEAN, value : ProviderConfigs]
    /\ ~setting.exists => setting.value = NoCredentials
    /\ settings_providers \in ProviderConfigs
    /\ setting.exists => settings_providers = setting.value
    /\ dc = DcIdle

\* _merge_credential_lists: the existing items keyed by provider:name,
\* updated by the incoming items of the same name, joined by the incoming
\* items that are new.  An existing item missing from the incoming list
\* stays.
merge_credential_lists(existing, new) == existing \cup new

\* _merge_configs on the providers configuration: dictionaries are merged
\* key by key, the api_keys / wallets lists by _merge_credential_lists.
merge_configs(existing, new) ==
    [p \in CredentialProviders |-> merge_credential_lists(existing[p], new[p])]

\* delete_provider_credential up to the call of save_config: the cleanup (a
\* failure is logged), a copy of settings.providers, the named item popped
\* from the provider's list; 404 when the provider has no such item.
DeleteProviderCredential(provider, credential_name) ==
    /\ dc.pc \in {"idle", "responded"}
    /\ IF provider \in CredentialProviders
          /\ credential_name \in settings_providers[provider]
       THEN dc' = [DcIdle EXCEPT !.pc = "execute", !.provider = provider,
                                 !.credential_name = credential_name,
                                 !.config = [settings_providers EXCEPT
                                                ![provider] = @ \ {credential_name}]]
       ELSE dc' = [DcIdle EXCEPT !.pc = "responded", !.provider = provider,
                                 !.credential_name = credential_name,
                                 !.status = 404]
    /\ UNCHANGED <<setting, settings_providers, limVars, depVars, gwVars, edgeVars>>

\* save_config: the stored row is selected; when there is one the new
\* configuration is merged into its value, else the new configuration is
\* what will be stored.
SaveConfigExecute ==
    /\ dc.pc = "execute"
    /\ dc' = [dc EXCEPT !.pc = "commit",
                        !.final_config = IF setting.exists
                                         THEN merge_configs(setting.value, dc.config)
                                         ELSE dc.config]
    /\ UNCHANGED <<setting, settings_providers, limVars, depVars, gwVars, edgeVars>>

\* save_config: db.commit() writes the row.
SaveConfigCommit ==
    /\ dc.pc = "commit"
    /\ setting' = [exists |-> TRUE, value |-> dc.final_config]
    /\ dc' = [dc EXCEPT !.pc = "refresh"]
    /\ UNCHANGED <<settings_providers, limVars, depVars, gwVars, edgeVars>>

\* save_config: after db.refresh, _update_local_settings(final_config); the
\* endpoint answers 200 {"status": "ok"}.
SaveConfigUpdateLocal ==
    /\ dc.pc = "refresh"
    /\ settings_providers' = dc.final_config
    /\ dc' = [dc EXCEPT !.pc = "responded", !.status = 200]
    /\ UNCHANGED <<setting, limVars, depVars, gwVars, edgeVars>>

\* The select, the commit or the refresh raises: HTTP 500.
SaveConfigRaise ==
    /\ dc.pc \in {"execute", "commit", "refresh"}
    /\ dc' = [dc EXCEPT !.pc = "responded", !.status = 500]
    /\ UNCHANGED <<setting, settings_providers, limVars, depVars, gwVars, edgeVars>>

\* poll_once: load_config and, when a row is stored,
\* _update_local_settings with its value.
PollOnce ==
    /\ setting.exists
    /\ settings_providers' = setting.value
    /\ UNCHANGED <<setting, dc, limVars, depVars, gwVars, edgeVars>>

NextConfig ==
    \/ \E p \in RequestedProviders, n \in CredentialNames : DeleteProviderCredential(p, n)
    \/ SaveConfigExecute
    \/ SaveConfigCommit
    \/ SaveConfigUpdateLocal
    \/ SaveConfigRaise
    \/ PollOnce

(***************************************************************************)
(* Specifications.                                                         *)
(***************************************************************************)
\* The limiter with no cap configured and no request in it.
LimiterAtRest ==
    /\ global_semaphore = 0
    /\ upstream_global_max_in_flight = 0
    /\ upstream_per_deployment_max_in_flight = 0
    /\ deployment_semaphores = [k \in DeploymentKeys |-> <<>>]
    /\ lim = [r \in Requests |-> LimIdle]

\* The middleware and the URL builder with nothing configured or called.
EdgeAtRest == MiddlewareAtRest /\ InitUrlBuilder

InitSpecLimiter == InitLimiter /\ InitDeploy /\ pool_provider = "k8s" /\ InitGateway /\ ConfigAtRest /\ EdgeAtRest
InitSpecDeploy ==
    InitDeploy /\ pool_provider \in Providers /\ LimiterAtRest /\ InitGateway /\ ConfigAtRest /\ EdgeAtRest
\* The same on a pool of any registered provider.
InitSpecAdapters == InitDeploy /\ LimiterAtRest /\ InitGateway /\ ConfigAtRest /\ EdgeAtRest
InitSpecGateway == InitGateway /\ ConfigAtRest /\ LimiterAtRest /\ InitDeploy /\ pool_provider = "k8s" /\ EdgeAtRest
InitSpecMiddleware ==
    InitMiddleware /\ InitUrlBuilder /\ LimiterAtRest /\ InitDeploy /\ pool_provider = "k8s" /\ InitGateway /\ ConfigAtRest
InitSpecUrlBuilder ==
    InitUrlBuilder /\ MiddlewareAtRest /\ LimiterAtRest /\ InitDeploy /\ pool_provider = "k8s" /\ InitGateway /\ ConfigAtRest

SpecMiddleware == InitSpecMiddleware /\ [][NextMiddleware]_vars

SpecUrlBuilder == InitSpecUrlBuilder /\ [][NextUrlBuilder]_vars

SpecLimiter == InitSpecLimiter /\ [][NextLimiter]_vars

SpecDeploy == InitSpecDeploy /\ [][NextDeploy]_vars

SpecHeartbeat == InitSpecDeploy /\ [][NextHeartbeat]_vars

SpecProvision == InitSpecDeploy /\ [][NextProvision]_vars
\* deploy_model and the deploy handler on a pool of any registered provider.
SpecAdapters == InitSpecAdapters /\ [][NextProvision]_vars

\* The worker runs every handler it started to its return.
SpecProvisionReturns ==
    /\ InitSpecDeploy /\ [][NextProvisionReturns]_vars
    /\ \A t \in RaceTasks : WF_vars(DeployReturns(t))

SpecGateway == InitSpecGateway /\ [][NextGateway]_vars

\* The gateway with the event loop's scheduling: a generator that was left
\* is finalised, and a task that was created runs each of its awaits.
SpecGatewayLive ==
    /\ InitSpecGateway /\ [][NextGateway]_vars
    /\ WF_vars(StreamFinally) /\ WF_vars(LogInference) /\ WF_vars(TrackUsage)

\* start_deployment alone, called on a persisted row in any state, with any
\* workload_type in its configuration (or none) and either pool.
DeploymentStates == {"PENDING", "PROVISIONING", "SCHEDULING", "DEPLOYING", "RUNNING",
                     "STOPPED", "FAILED", "TERMINATING", "TERMINATED"}
PersistedWorkloadTypes == {None, "inference", "training", "external"}
PoolIds == {PoolId, "p2"}

InitSpecStart ==
    /\ row \in [exists : {TRUE}, state : DeploymentStates, endpoint : Endpoints,
                node_ids : {{}}, allocation_ids : {{}},
                workload_type : PersistedWorkloadTypes, created_at : {0},
                pool_id : PoolIds]
    /\ outbox = <<>>
    /\ published = [deploy |-> 0, terminate |-> 0]
    /\ pending = [deploy |-> 0, terminate |-> 0]
    /\ deprovisioned = 0
    /\ node = NoNode
    /\ now = 0
    /\ pool_provider = "k8s"
    /\ pool = ActivePool
    /\ redelivered = [deploy |-> 0, terminate |-> 0]
    /\ dm = DmIdle
    /\ rd = [c \in DeleteCallers |-> RdIdle]
    /\ sd = SdIdle
    /\ dh = [t \in RaceTasks |-> DhIdle]
    /\ th = [t \in TerminateTasks |-> ThIdle]
    /\ hb = HbIdle
    /\ LimiterAtRest
    /\ InitGateway /\ ConfigAtRest
    /\ EdgeAtRest

NextStart ==
    \/ StartDeploymentGet
    \/ StartDeploymentUpdate
    \/ StartDeploymentPublish

SpecStart == InitSpecStart /\ [][NextStart]_vars

\* The provider configuration alone.
InitSpecConfig ==
    InitConfig /\ LimiterAtRest /\ InitDeploy /\ pool_provider = "k8s" /\ InitGateway
    /\ EdgeAtRest
SpecConfig == InitSpecConfig /\ [][NextConfig]_vars

\* deploy_model (no row yet) and start_deployment (on a persisted row in any
\* state) on a pool that is active, deactivated or missing.
InitSpecPool ==
    /\ row \in {NoRow} \cup
               [exists : {TRUE}, state : DeploymentStates, endpoint : {None},
                node_ids : {{}}, allocation_ids : {{}},
                workload_type : {"inference", "external"}, created_at : {0},
                pool_id : {PoolId}]
    /\ outbox = <<>>
    /\ published = [deploy |-> 0, terminate |-> 0]
    /\ pending = [deploy |-> 0, terminate |-> 0]
    /\ deprovisioned = 0
    /\ node = NoNode
    /\ now = 0
    /\ pool_provider = "k8s"
    /\ pool \in Pools
    /\ redelivered = [deploy |-> 0, terminate |-> 0]
    /\ dm = DmIdle
    /\ rd = [c \in DeleteCallers |-> RdIdle]
    /\ sd = SdIdle
    /\ dh = [t \in RaceTasks |-> DhIdle]
    /\ th = [t \in TerminateTasks |-> ThIdle]
    /\ hb = HbIdle
    /\ LimiterAtRest
    /\ InitGateway /\ ConfigAtRest
    /\ EdgeAtRest

NextPool ==
    \/ \E w \in WorkloadTypes, e \in Endpoints : DeployModelCall(w, e)
    \/ DeployModelCreate
    \/ DeployModelEnqueue
    \/ DeployModelPublish
    \/ DeployModelCommit
    \/ DeployModelFail
    \/ StartDeploymentGet
    \/ StartDeploymentUpdate
    \/ StartDeploymentPublish

SpecPool == InitSpecPool /\ [][NextPool]_vars

\* Termination alone: a compute deployment that runs on its registered node
\* (its deploy event was delivered and handled), with or without scheduler
\* allocations, on either kind of pool.
InitSpecTerminate ==
    /\ row \in [exists : {TRUE}, state : {"RUNNING"}, endpoint : Endpoints,
                node_ids : {{NodeId}}, allocation_ids : {{}, {"a1"}},
                workload_type : {"inference"}, created_at : {0},
                pool_id : {PoolId}]
    /\ outbox = <<"model.deployment.requested">>
    /\ published = [deploy |-> 1, terminate |-> 0]
    /\ pending = [deploy |-> 0, terminate |-> 0]
    /\ deprovisioned = 0
    /\ node = [exists |-> TRUE, expose_url |-> row.endpoint]
    /\ now = 0
    /\ pool_provider \in Providers
    /\ pool = ActivePool
    /\ redelivered = [deploy |-> 0, terminate |-> 0]
    /\ dm = [DmIdle EXCEPT !.pc = "returned", !.workload_type = "inference"]
    /\ rd = [c \in DeleteCallers |-> RdIdle]
    /\ sd = SdIdle
    /\ dh = [t \in RaceTasks |-> DhIdle]
    /\ th = [t \in TerminateTasks |-> ThIdle]
    /\ hb = HbIdle
    /\ LimiterAtRest
    /\ InitGateway /\ ConfigAtRest
    /\ EdgeAtRest

\* request_delete, the bus and handle_terminate_requested.
NextTerminate ==
    \/ \E c \in DeleteCallers : RequestDeleteGet(c)
    \/ \E c \in DeleteCallers : RequestDeleteTx(c)
    \/ \E c \in DeleteCallers : RequestDeletePublish(c)
    \/ \E t \in TerminateTasks : DeliverTerminate(t)
    \/ \E t \in TerminateTasks : TerminateGet(t)
    \/ \E t \in TerminateTasks : TerminateDeprovision(t)
    \/ \E t \in TerminateTasks : TerminateRelease(t)
    \/ \E t \in TerminateTasks : TerminateInventory(t)
    \/ \E t \in TerminateTasks : TerminateStopped(t)
    \/ \E t \in TerminateTasks : TerminateRaise(t)

\* A request_delete call that has read the row goes on to its transaction and
\* to publish; the bus delivers every published event; the worker runs every
\* handler it started to its return or to the exception that leaves it.
SpecTerminate ==
    /\ InitSpecTerminate /\ [][NextTerminate]_vars
    /\ \A c \in DeleteCallers : WF_vars(RequestDeleteTx(c) \/ RequestDeletePublish(c))
    /\ WF_vars(\E t \in TerminateTasks : DeliverTerminate(t))
    /\ \A t \in TerminateTasks : WF_vars(TerminateStep(t))

\* request_delete and handle_terminate_requested with a bus that delivers
\* events again; every provider and inventory call of the handler succeeds,
\* so that every handler that was left has returned.
NextRedelivery ==
    \/ \E c \in DeleteCallers : RequestDeleteGet(c)
    \/ \E c \in DeleteCallers : RequestDeleteTx(c)
    \/ \E c \in DeleteCallers : RequestDeletePublish(c)
    \/ \E t \in TerminateTasks : DeliverTerminate(t)
    \/ \E t \in TerminateTasks : RedeliverTerminate(t)
    \/ \E t \in TerminateTasks : TerminateGet(t)
    \/ \E t \in TerminateTasks : TerminateDeprovision(t)
    \/ \E t \in TerminateTasks : TerminateRelease(t)
    \/ \E t \in TerminateTasks : TerminateInventory(t)
    \/ \E t \in TerminateTasks : TerminateStopped(t)

SpecRedelivery == InitSpecTerminate /\ [][NextRedelivery]_vars

\* The same deployment with the heartbeats of its node and the clock; every
\* provider and inventory call of the handler succeeds.
NextTerminateHeartbeat ==
    \/ RequestDeleteGet(1)
    \/ RequestDeleteTx(1)
    \/ RequestDeletePublish(1)
    \/ \E t \in TerminateTasks : DeliverTerminate(t)
    \/ \E t \in TerminateTasks : TerminateGet(t)
    \/ \E t \in TerminateTasks : TerminateDeprovision(t)
    \/ \E t \in TerminateTasks : TerminateRelease(t)
    \/ \E t \in TerminateTasks : TerminateInventory(t)
    \/ \E t \in TerminateTasks : TerminateStopped(t)
    \/ \E s \in HeartbeatStates, u \in Endpoints : HeartbeatUpsert(s, u)
    \/ HeartbeatSyncEndpoint
    \/ HeartbeatRead
    \/ HeartbeatWrite
    \/ Tick

SpecTerminateHeartbeat == InitSpecTerminate /\ [][NextTerminateHeartbeat]_vars

\* C1: at every instant the number of requests inside the guarded block for
\* one deployment key is at most upstream_per_deployment_max_in_flight (when
\* > 0) and the number inside across all keys is at most
\* upstream_global_max_in_flight (when > 0).
C1_InFlightWithinCaps ==
    /\ upstream_global_max_in_flight > 0 =>
          Cardinality(InFlight) <= upstream_global_max_in_flight
    /\ upstream_per_deployment_max_in_flight > 0 =>
          \A k \in DeploymentKeys :
              Cardinality(InFlightFor(k)) <= upstream_per_deployment_max_in_flight

\* C1 witness: both caps are set, the global cap is full, one key's cap is
\* full, and a request has already been turned away with 429.
C1_Witness ==
    /\ upstream_global_max_in_flight > 0
    /\ upstream_per_deployment_max_in_flight > 0
    /\ Cardinality(InFlight) = upstream_global_max_in_flight
    /\ \E k \in DeploymentKeys :
          Cardinality(InFlightFor(k)) = upstream_per_deployment_max_in_flight
    /\ \E r \in Requests : lim[r].result = "429"
    /\ \E r \in Requests : lim[r].result = "exception"

\* C14: a limit() call that leaves before the guarded block without being
\* cancelled timed out waiting for the global or for the per-deployment
\* semaphore; it ends with HTTP 429 and Retry-After: 1, was
\* never inside the guarded block, and after the step it holds no slot:
\* every slot missing from a semaphore is held by a call still running.
C14_TimeoutIs429AndHoldsNothing ==
    [][\A r \in Requests :
          (lim[r].pc # "idle" /\ lim'[r].pc = "idle" /\ lim[r].pc # "inside"
             /\ lim'[r].result # "cancelled") =>
             /\ lim[r].pc \in {"acquire_global", "acquire_deployment"}
             /\ lim'[r].result = "429" /\ lim'[r].retry_after = "1"
             /\ r \notin HoldsGlobal' /\ \A k \in DeploymentKeys : r \notin HoldsDeployment(k)'
             /\ HasGlobalSemaphore =>
                    global_semaphore' + Cardinality(HoldsGlobal') = upstream_global_max_in_flight
             /\ \A k \in DeploymentKeys : deployment_semaphores'[k] # <<>> =>
                    deployment_semaphores'[k][1] + Cardinality(HoldsDeployment(k)') =
                        upstream_per_deployment_max_in_flight]_vars

\* A call that held a global slot timed out on its key's semaphore while
\* another call was inside the guarded block; the global slot is back.
C14_Witness ==
    \E r \in Requests :
        /\ lim[r].result = "429" /\ lim[r].waited_on = "deployment" /\ lim[r].pc = "idle"
        /\ upstream_global_max_in_flight = 2 /\ global_semaphore = 1
        /\ Cardinality(InFlight) = 1

\* The same for a call that timed out on the global semaphore.
C14_WitnessGlobal ==
    \E r \in Requests :
        /\ lim[r].result = "429" /\ lim[r].waited_on = "global" /\ lim[r].pc = "idle"
        /\ upstream_global_max_in_flight = 1 /\ global_semaphore = 0
        /\ Cardinality(InFlight) = 1

\* C33: every slot acquired through limit() is given back exactly once when
\* the call leaves, by return, exception, cancellation or time-out: each
\* semaphore's value plus the calls holding one of its slots is its cap, and
\* when no call is inside limit() every semaphore is at its cap.
C33_SlotsReleasedExactlyOnce ==
    /\ HasGlobalSemaphore =>
           global_semaphore + Cardinality(HoldsGlobal) = upstream_global_max_in_flight
    /\ \A k \in DeploymentKeys : deployment_semaphores[k] # <<>> =>
           deployment_semaphores[k][1] + Cardinality(HoldsDeployment(k)) =
               upstream_per_deployment_max_in_flight
    /\ (\A r \in Requests : lim[r].pc = "idle") =>
           /\ HasGlobalSemaphore => global_semaphore = upstream_global_max_in_flight
           /\ \A k \in DeploymentKeys : deployment_semaphores[k] # <<>> =>
                  deployment_semaphores[k][1] = upstream_per_deployment_max_in_flight

\* Every call has left, one by an exception in the guarded block, one
\* cancelled while it held both slots, one timed out on its key's semaphore
\* while it held a global slot.
C33_Witness ==
    /\ \A r \in Requests : lim[r].pc = "idle"
    /\ upstream_global_max_in_flight = 2 /\ upstream_per_deployment_max_in_flight = 1
    /\ \E r \in Requests : lim[r].result = "exception"
    /\ \E r \in Requests : lim[r].result = "cancelled"
                              /\ lim[r].released = <<"deployment", "global">>
    /\ \E r \in Requests : lim[r].result = "429" /\ lim[r].waited_on = "deployment"
                              /\ lim[r].released = <<"global">>

\* C34: a request is turned away for lack of a global slot only when
\* upstream_global_max_in_flight requests are inside the guarded block;
\* requests waiting for the slot of a saturated deployment take no global
\* capacity.  (Stated for a request whose own deployment has a free slot,
\* and for the moments when every call that holds a global
\* slot is inside the guarded block or waits on a semaphore without a free
\* slot.)
C34_GlobalRejectionOnlyWhenFull ==
    [][\A r \in Requests :
          (lim[r].pc = "acquire_global" /\ lim'[r].result = "429"
             /\ global_semaphore = 0
             /\ deployment_semaphores[lim[r].key] # <<0>>
             /\ \A q \in Requests :
                    /\ lim[q].pc # "get_semaphore"
                    /\ lim[q].pc = "acquire_deployment" =>
                           deployment_semaphores[lim[q].key][1] = 0)
          => Cardinality(InFlight) = upstream_global_max_in_flight]_vars

\* C35: limit() acquires the global slot before the per-deployment slot,
\* its finally-block releases the per-deployment slot before the global
\* slot, and with a global cap configured no call holds a per-deployment slot
\* without a global slot.
C35_AcquireGlobalFirstReleaseLast ==
    \A r \in Requests :
        /\ (HasGlobalSemaphore /\ lim[r].acquired_deployment) => lim[r].acquired_global
        /\ (HasGlobalSemaphore /\ lim[r].pc \in {"acquire_deployment", "inside"})
               => lim[r].acquired_global
        /\ lim[r].released \in {<<>>, <<"deployment">>, <<"global">>,
                                <<"deployment", "global">>}

\* A call that held both slots has left the guarded block and given back
\* the per-deployment slot, then the global slot.
C35_Witness ==
    \E r \in Requests :
        /\ lim[r].pc = "idle" /\ lim[r].result = "ok"
        /\ lim[r].released = <<"deployment", "global">>

(***************************************************************************)
(* Claims about the deployment plane (SpecDeploy, SpecHeartbeat).          *)
(***************************************************************************)
\* Nothing is in flight: every event was handled and every call returned.
Quiescent ==
    /\ pending.deploy = 0 /\ pending.terminate = 0
    /\ \A t \in DeployTasks : dh[t].pc = "idle"
    /\ \A t \in TerminateTasks : th[t].pc = "idle"
    /\ \A c \in DeleteCallers : rd[c].pc = "returned"
    /\ sd.pc = "idle" /\ hb.pc = "idle"

\* C2: when a second request_delete call runs concurrently with a first one
\* that found the deployment RUNNING, at most one model.terminate.requested
\* event is ever published and deprovision_node is called at most once for
\* the node; and once everything has settled there was exactly one event,
\* one deprovision call for a node of node_ids, and the state is STOPPED.
C2_ConcurrentDeletesTerminateOnce ==
    (rd[1].seen = "RUNNING" /\ rd[2].concurrent) =>
        /\ published.terminate <= 1
        /\ deprovisioned <= 1
        /\ Quiescent =>
              /\ published.terminate = 1
              /\ row.state = "STOPPED"
              /\ (NodeId \in row.node_ids /\ node.exists) => deprovisioned = 1

\* C3: a request_delete call that found the deployment TERMINATING, STOPPED
\* or TERMINATED takes no step that changes the deployment row, the outbox
\* or the published events.
C3_DeleteOnTerminalIsNoOp ==
    [][\A c \in DeleteCallers :
          (rd[c].seen \in {"TERMINATING", "STOPPED", "TERMINATED"} /\ rd'[c] # rd[c])
              => (row' = row /\ outbox' = outbox /\ published' = published)]_vars

\* C4: after deploy_model for a compute workload has returned or failed,
\* the deployment row, the model.deployment.requested outbox event and the
\* published model.deploy.requested event all exist or none of them does.
C4_DeployModelAtomic ==
    (dm.pc \in {"returned", "failed"} /\ dm.workload_type # "external") =>
        LET has_row == row.exists
            has_outbox == \E i \in 1..Len(outbox) : outbox[i] = "model.deployment.requested"
            has_event == published.deploy > 0
        IN \/ has_row /\ has_outbox /\ has_event
           \/ ~has_row /\ ~has_outbox /\ ~has_event

\* C5: a deployment whose state is RUNNING has a non-empty endpoint.
C5_RunningHasEndpoint ==
    (row.exists /\ row.state = "RUNNING") => row.endpoint # None

\* C6: a compute deployment is RUNNING exactly when its endpoint is non-null.
C6_ComputeRunningIffEndpoint ==
    (row.exists /\ row.workload_type # "external") =>
        (row.state = "RUNNING" <=> row.endpoint # None)

\* C7: a heartbeat with state terminated from an ephemeral provider that
\* finds its linked deployment non-terminal decides FAILED when less than
\* EPHEMERAL_FAILURE_THRESHOLD_MINUTES have passed since the deployment's
\* creation and STOPPED otherwise, and the deployment is moved to the state
\* decided.
C7_EphemeralTerminatedHeartbeat ==
    [][(hb.state = "terminated" /\ is_ephemeral(pool_provider)) =>
          /\ (hb.pc = "read" /\ hb'.pc = "write") =>
                 hb'.final_state =
                     IF now - row.created_at < EPHEMERAL_FAILURE_THRESHOLD_MINUTES
                     THEN "FAILED" ELSE "STOPPED"
          /\ (hb.pc = "write" /\ hb'.pc = "idle") =>
                 (row'.exists /\ row'.state = hb.final_state)]_vars

\* The deployment is about to be moved to STOPPED by a terminated heartbeat of
\* an ephemeral provider that came after the window ...
C7_Witness ==
    /\ hb.pc = "write" /\ hb.state = "terminated" /\ is_ephemeral(pool_provider)
    /\ now - row.created_at >= EPHEMERAL_FAILURE_THRESHOLD_MINUTES
    /\ hb.final_state = "STOPPED" /\ row.state = "RUNNING"

\* ... and to FAILED by one that came within it.
C7_WitnessFailed ==
    /\ hb.pc = "write" /\ hb.state = "terminated" /\ is_ephemeral(pool_provider)
    /\ now - row.created_at < EPHEMERAL_FAILURE_THRESHOLD_MINUTES
    /\ hb.final_state = "FAILED" /\ row.state = "RUNNING"

\* C11: an external deployment has no compute lifecycle: deploy_model
\* commits it in RUNNING, start_deployment writes RUNNING and returns, and
\* while the deployment is external no model.deploy.requested event has been
\* published and no deploy handler runs.
C11_ExternalHasNoComputeLifecycle ==
    [][/\ (row'.exists /\ row'.workload_type = "external") =>
             /\ published'.deploy = 0 /\ pending'.deploy = 0
             /\ \A t \in DeployTasks : dh'[t].pc = "idle"
       /\ (dm.pc = "commit" /\ dm'.pc = "returned" /\ dm.workload_type = "external") =>
             row'.state = "RUNNING"
       /\ (sd.pc = "update" /\ sd' # sd /\ row.workload_type = "external") =>
             (row'.state = "RUNNING" /\ sd'.pc = "returned")]_vars

\* An external deployment that was stopped has been restarted by
\* start_deployment.
C11_Witness ==
    /\ row.exists /\ row.workload_type = "external" /\ row.state = "RUNNING"
    /\ sd.pc = "returned" /\ sd.writes = <<"RUNNING">>
    /\ \E c \in DeleteCallers : rd[c].pc = "returned"

\* C15: the deployment's node_ids is non-empty only while its state is
\* PROVISIONING, SCHEDULING, DEPLOYING, RUNNING or TERMINATING.
C15_NodeIdsOnlyWhileActive ==
    (row.exists /\ row.node_ids # {}) =>
        row.state \in {"PROVISIONING", "SCHEDULING", "DEPLOYING", "RUNNING", "TERMINATING"}

\* C23: once the deployment is TERMINATING, a deploy handler that has
\* started provisioning (provision_node, the readiness wait and the steps
\* that follow them) writes no deployment state any more.
C23_HandlerAbortsAfterDelete ==
    [][\A t \in DeployTasks :
          (row.exists /\ row.state = "TERMINATING" /\ dh'[t] # dh[t]
             /\ dh[t].pc \in {"provision", "recheck", "update_endpoint", "register",
                              "running", "attach", "sim_attach", "sim_running"})
          => row'.state = row.state]_vars

\* The edges of the lifecycle state machine, with PROVISIONING -> RUNNING (the
\* provisioning path of the spec's own deploy scenario) and a delete from
\* any state before RUNNING counted as edges too.
LifecycleEdges ==
    {<<"PENDING", "PROVISIONING">>, <<"PROVISIONING", "SCHEDULING">>,
     <<"SCHEDULING", "DEPLOYING">>, <<"DEPLOYING", "RUNNING">>,
     <<"PROVISIONING", "RUNNING">>,
     <<"PENDING", "FAILED">>, <<"PROVISIONING", "FAILED">>, <<"SCHEDULING", "FAILED">>,
     <<"DEPLOYING", "FAILED">>, <<"RUNNING", "FAILED">>,
     <<"PENDING", "TERMINATING">>, <<"PROVISIONING", "TERMINATING">>,
     <<"SCHEDULING", "TERMINATING">>, <<"DEPLOYING", "TERMINATING">>,
     <<"RUNNING", "TERMINATING">>,
     <<"TERMINATING", "STOPPED">>, <<"TERMINATING", "TERMINATED">>,
     <<"RUNNING", "STOPPED">>,
     <<"STOPPED", "PENDING">>, <<"FAILED", "PENDING">>, <<"TERMINATED", "PENDING">>,
     <<"STOPPED", "RUNNING">>, <<"FAILED", "RUNNING">>, <<"TERMINATED", "RUNNING">>}

\* C24: every change of the deployment's state follows an edge of the
\* lifecycle state machine.
C24_StateChangesFollowLifecycle ==
    [][(row.exists /\ row'.exists /\ row'.state # row.state) =>
          <<row.state, row'.state>> \in LifecycleEdges]_vars

\* C28: an ephemeral deployment that the worker set RUNNING after it
\* registered the provisioned node has that node in node_ids.
C28_EphemeralRunningHasNode ==
    (row.exists /\ row.state = "RUNNING" /\ is_ephemeral(pool_provider) /\ node.exists) =>
        NodeId \in row.node_ids

\* C25: a deploy handler that ends with an exception after it moved the
\* deployment to PROVISIONING leaves the deployment FAILED.
C25_FailedHandlerSetsFailed ==
    [][\A t \in DeployTasks :
          (dh[t].pc \in {"lookup", "except"} /\ dh'[t].pc = "idle") =>
              row'.state = "FAILED"]_vars

Winners == {t \in RaceTasks : dh[t].pc \notin {"idle", "get", "cas"}}

\* C22: of the handle_deploy_requested invocations that concurrent or repeated
\* deliveries of the event start, at most one is past the PENDING ->
\* PROVISIONING compare-and-set, it passed it from PENDING, and an invocation
\* that returns at the state check or at the compare-and-set has changed
\* neither the deployment nor the inventory nor the provider.
C22_OneHandlerWinsCompareAndSet ==
    /\ [](Cardinality(Winners) <= 1)
    /\ [][\A t \in RaceTasks :
            /\ (dh[t].pc = "cas" /\ dh'[t].pc = "lookup") =>
                   (row.state = "PENDING" /\ row'.state = "PROVISIONING"
                      /\ Winners = {})
            /\ (dh[t].pc \in {"get", "cas"} /\ dh'[t].pc = "idle") =>
                   (row' = row /\ node' = node /\ deprovisioned' = deprovisioned)]_vars

\* Two invocations read PENDING; one has won the compare-and-set and the
\* other is about to lose it.
C22_Witness ==
    \E t \in RaceTasks, u \in RaceTasks :
        /\ t # u /\ dh[t].pc = "lookup" /\ dh[u].pc = "cas"
        /\ row.state = "PROVISIONING"

\* C26: every deployment that request_delete moved to TERMINATING reaches
\* STOPPED, the terminate event being delivered and the worker running its
\* handlers, also when deprovision_node or an inventory call fails.
C26_TerminatingReachesStopped ==
    (row.exists /\ row.state = "TERMINATING") ~> (row.state = "STOPPED")

\* The deployment was deleted, and neither request_delete nor the bus nor a
\* handler nor a heartbeat has anything left to do for it.
TerminationSettled ==
    /\ \E c \in DeleteCallers : rd[c].pc = "returned" /\ ~request_delete_skips(rd[c].seen)
    /\ \A c \in DeleteCallers : rd[c].pc \in {"idle", "returned"}
    /\ pending.terminate = 0
    /\ \A t \in TerminateTasks : th[t].pc = "idle"
    /\ hb.pc = "idle"

\* C27: a deployment with nodes that request_delete moved to TERMINATING
\* does not end in STOPPED or FAILED with its node never deprovisioned,
\* whatever heartbeats its node reports in between.
C27_NodesDeprovisionedBeforeEnd ==
    (TerminationSettled /\ row.state \in {"STOPPED", "FAILED"}) => deprovisioned > 0

\* C30: a model.terminate.requested event that is delivered again after the
\* handler of an earlier delivery has returned is dropped at the state check: its
\* handler calls no adapter, changes no inventory and writes no state.
C30_RedeliveryAfterCompletionIsNoOp ==
    \A t \in TerminateTasks : th[t].late => th[t].pc \in {"idle", "get"}

\* C29: once the quota error of a request has been returned, no input scan
\* of that request is still in flight: the scan task has finished or its
\* cancellation has completed.
C29_NoScanInFlightAfterQuotaError ==
    (gw.pc = "responded" /\ quota_task = "failed") =>
        scan_task.pc \in {"done", "raised", "cancelled"}

\* C31: the state write of a heartbeat leaves a deployment that is STOPPED,
\* FAILED or TERMINATED when the write is applied in that state, however the
\* heartbeat's read and write interleave with the terminate handler and the
\* controller.
C31_HeartbeatKeepsTerminalState ==
    [][(hb.pc = "write" /\ hb'.pc = "idle"
          /\ row.state \in {"STOPPED", "FAILED", "TERMINATED"})
       => row'.state = row.state]_vars

C36_UserMessageScannedBeforeUpstream ==
    (gw.guardrail /\ gw.has_user /\ (gw.pc = "prompt" \/ upstream # <<>>))
        => scan_task.is_valid # None

\* C37: the API key sent upstream is the deployment's credential whenever
\* there is one; the provider-wide key (the Nosana internal key of a Nosana
\* deployment) is sent only when the deployment has no credential, and no
\* key is sent only when neither exists.
C37_DeploymentCredentialPreferred ==
    \A i \in 1..Len(upstream) :
        LET global_key == IF gw.nosana THEN gw.nosana_key ELSE None
        IN /\ gw.credential # None => upstream[i].api_key = gw.credential
           /\ (gw.credential = None /\ global_key # None)
                  => upstream[i].api_key = global_key
           /\ upstream[i].api_key = None
                  => (gw.credential = None /\ global_key = None)

\* C38: when the pool of a deployment is missing or inactive, deploy_model
\* and start_deployment fail and leave no deployment row, no state change,
\* no outbox event and no bus event.
C38_UnusablePoolQueuesNothing ==
    ~(pool.exists /\ pool.is_active) =>
        /\ dm.pc # "returned" /\ (dm.pc # "idle" => ~row.exists)
        /\ sd.pc # "returned" /\ sd.writes = <<>>
        /\ outbox = <<>>
        /\ published.deploy = 0

\* C39: whatever the provider of the pool, no control-path call of the deploy
\* handler is rejected by the adapter for the arguments the worker passes,
\* so no deployment fails for that reason.
C39_AdapterAcceptsWorkerCalls ==
    \A t \in RaceTasks : ~dh[t].rejected

\* C40: once delete_provider_credential has answered success for a
\* credential, the credential is in neither the stored provider
\* configuration nor the in-memory settings.
C40_DeletedCredentialIsGone ==
    (dc.pc = "responded" /\ dc.status = 200) =>
        /\ dc.credential_name \notin setting.value[dc.provider]
        /\ dc.credential_name \notin settings_providers[dc.provider]

(***************************************************************************)
(* Claims about start_deployment alone (SpecStart).                        *)
(***************************************************************************)
\* C12: a start_deployment call that finds a state other than STOPPED,
\* TERMINATED or FAILED is rejected, and neither the call's first step nor
\* anything after it updates the deployment or publishes an event.
C12_StartRejectedOutsideStoppedStates ==
    [][/\ (sd.pc = "idle" /\ sd' # sd) =>
             IF row.state \in {"STOPPED", "TERMINATED", "FAILED"}
             THEN sd'.pc = "update"
             ELSE /\ sd'.pc = "rejected" /\ sd'.writes = <<>> /\ sd'.payload = NoPayload
                  /\ UNCHANGED <<row, outbox, published, pending>>
       /\ sd.pc = "rejected" => UNCHANGED <<row, outbox, published, pending>>]_vars

\* start_deployment was rejected on a RUNNING deployment.
C12_Witness ==
    sd.pc = "rejected" /\ row.state = "RUNNING" /\ row.workload_type = "external"

\* C13: when start_deployment has returned for a non-external deployment it
\* has written PENDING once and nothing else, one model.deploy.requested
\* event is published, and the event carries the workload_type of the
\* persisted configuration (inference when it has none) and the row's
\* pool_id.
C13_StartRequeuesComputeDeployment ==
    (sd.pc = "returned" /\ row.workload_type # "external") =>
        /\ sd.writes = <<"PENDING">> /\ row.state = "PENDING"
        /\ published.deploy = 1 /\ pending.deploy = 1
        /\ sd.payload.workload_type =
               (IF row.workload_type = None THEN "inference" ELSE row.workload_type)
        /\ sd.payload.pool_id = row.pool_id

\* A restart of a row whose configuration has no workload_type, on the
\* second pool.
C13_Witness ==
    /\ sd.pc = "returned" /\ row.workload_type = None /\ row.pool_id = "p2"
    /\ sd.payload = [workload_type |-> "inference", pool_id |-> "p2"]
    /\ published.deploy = 1

(***************************************************************************)
(* Claims about the inference gateway (SpecGateway).                       *)
(***************************************************************************)
\* C8: once the input scan of the request has returned is_valid = false, no
\* upstream call, streaming or not, has been or will be made for it.
C8_InvalidInputNeverReachesUpstream ==
    scan_task.is_valid = "False" => upstream = <<>>

\* The scan returned is_valid = false after the quota check passed, and the
\* request was answered 400.
C8_Witness ==
    /\ scan_task.is_valid = "False"
    /\ quota_task = "ok"
    /\ gw.pc = "responded" /\ gw.status = 400

\* C9: with RAG or a template enabled, upstream is called only with the
\* messages of a successful prompt-processing call; when processing raises or
\* returns no usable result the request ends with 500 and upstream is never
\* called.
C9_PromptProcessingFailsClosed ==
    gw.processing =>
        /\ \A i \in 1..Len(upstream) : upstream[i].messages = "processed"
        /\ (gw.prompt_result \in {"empty", "raises"} =>
               (upstream = <<>> /\ (gw.pc = "responded" => gw.status = 500)))

C10_WitnessStandard ==
    /\ gw.success /\ ~gw.stream /\ log_task.pc = "done"
    /\ Len(usage) = 1 /\ usage[1].prompt_tokens > 0 /\ usage[1].completion_tokens > 0

\* C16: on the non-streaming path a request whose upstream call came back
\* with a non-2xx response is answered with HTTP 502, whatever the upstream
\* status was.
C16_UpstreamErrorIs502 ==
    (gw.pc = "responded" /\ ~gw.stream /\ gw.upstream_status # 0
       /\ gw.upstream_status \notin 200..299) => gw.status = 502

\* C17: a request whose context resolution failed is answered by cause, 401
\* for an invalid key, 403 for a key not permitted for the model and 404 for
\* an unknown model, and no later pipeline step has run for it.
C17_ContextFailureStatusByCause ==
    (gw.pc = "responded" /\ gw.resolution \notin {None, "valid"}) =>
        /\ gw.status = CASE gw.resolution = "invalid_key" -> 401
                         [] gw.resolution = "key_not_permitted" -> 403
                         [] gw.resolution = "unknown_model" -> 404
        /\ quota_task = "none" /\ scan_task = NoScan
        /\ upstream = <<>> /\ log_task = NoLog /\ usage = <<>>

C18_EveryResponseCarriesRequestId ==
    mw.pc = "responded" =>
        mw.x_request_id = (IF mw.inbound \in {None, ""} THEN Uuid4 ELSE mw.inbound)

\* C19: the URL built from any of the endpoints and any adapter chat path
\* contains /v1 at most once and a chat-path suffix (/chat/completions or
\* /messages) exactly once.
C19_NoDuplicateV1OneChatSuffix ==
    bu.pc = "returned" =>
        /\ occurrences(bu.full_url, V1) <= 1
        /\ occurrences(bu.full_url, ChatCompletions) + occurrences(bu.full_url, Messages) = 1

\* The endpoint already ends in /v1, with a trailing slash, and the chat
\* path starts with /v1: the overlap is removed.
C19_Witness ==
    /\ bu.pc = "returned"
    /\ bu.endpoint_url = Base \o V1 \o Slash
    /\ bu.chat_path = V1 \o ChatCompletions
    /\ bu.full_url = Base \o V1 \o ChatCompletions

\* The endpoint already ends in a chat path and is used as it is.
C19_WitnessFullPath ==
    /\ bu.pc = "returned"
    /\ bu.endpoint_url = Base \o Messages \o Slash \o Slash
    /\ bu.full_url = Base \o Messages

====
